---- MODULE Spec2Model ----
(***************************************************************************)
(* State-machine model of supervisor-tag-scan: the content-addressed       *)
(* result store (core/database.py), the engine lifecycle manager           *)
(* (core/model_manager.py), the scan orchestrator (routers/legacy_api.py), *)
(* the batch and byte pipelines (core/legacy_batch.py,                     *)
(* core/legacy_pipeline.py), the token routes (routers/auth.py) and the    *)
(* multipart routes (routers/legacy_http_api.py).                          *)
(*                                                                         *)
(* Conventions.  A Python Optional value is a set with at most one         *)
(* element: None is {} and a present value v is {v}.  Floats in [0,1] are  *)
(* integers in per mille (0.7 is 700).  Capability flags are the integers  *)
(* of core/bitmask.py; their bitwise operators are computed on the bits.   *)
(***************************************************************************)
EXTENDS Integers, Sequences, FiniteSets, TLC

\* ------------------------------------------------------------------ bounds

\* Store writes explored by SpecFiles (each write advances the clock by one).
MaxWrites == 2

\* scan_image requests explored by Spec and SpecPair.
MaxScans == 2

\* Environment faults explored by Spec and SpecPair: a rejected token, a failed
\* read or store call, a missing root, low headroom, a loader or engine error.
MaxFaults == 1

\* Tag operations explored by SpecTags (each advances the clock by one).
MaxTagOps == 3

\* The last day explored by SpecTags.
MaxDay == 32

\* _sample_indices is called with total up to MaxTotal and step up to MaxStep.
MaxTotal == 12

MaxStep == 6

\* map_modules_to_flags is called with lists of up to MaxModules names.
MaxModules == 3

\* load_models_for_flags calls made directly, explored by SpecManager.
MaxMgrCalls == 2

\* Ticks of idle time after which a slot counts as idle.
IdleLimit == 2

\* Requests to the token routes and verify_token calls explored by SpecAuth.
MaxAuthCalls == 2

\* The last tick of the token clock explored by SpecAuth.
MaxNow == 2

\* Requests to /check, /batch, /stats and /scan_image explored by SpecHttp.
MaxRequests == 1

\* ------------------------------------------------------- core/bitmask.py

FLAG_BASIC == 1
FLAG_NSFW == 2
FLAG_TAGS == 4
FLAG_FACE == 8
FLAG_VECTOR == 16

FlagBits == {FLAG_BASIC, FLAG_NSFW, FLAG_TAGS, FLAG_FACE, FLAG_VECTOR}

\* The set of flag bits set in the integer n.
Bits(n) == {b \in FlagBits : (n \div b) % 2 = 1}

RECURSIVE SumOf(_)
SumOf(S) == IF S = {} THEN 0 ELSE LET b == CHOOSE x \in S : TRUE IN b + SumOf(S \ {b})

\* a | b
BitOr(a, b) == SumOf(Bits(a) \cup Bits(b))

\* a & b
BitAnd(a, b) == SumOf(Bits(a) \cap Bits(b))

\* a & ~b
BitAndNot(a, b) == SumOf(Bits(a) \ Bits(b))

\* _MODULE_FLAG_MAP.get(normalized, 0)
MODULE_FLAG_MAP(name) ==
    CASE name = "basic" -> FLAG_BASIC
      [] name = "statistics" -> FLAG_BASIC
      [] name = "nsfw" -> FLAG_NSFW
      [] name = "tags" -> FLAG_TAGS
      [] name = "face" -> FLAG_FACE
      [] name = "vector" -> FLAG_VECTOR
      [] OTHER -> 0

\* module.strip().lower(), on the names the requests carry.
Normalize(module) ==
    CASE module = " Tags " -> "tags"
      [] module = "NSFW" -> "nsfw"
      [] module = "Face\n" -> "face"
      [] module = " " -> ""
      [] OTHER -> module

RECURSIVE OrModules(_, _)
OrModules(modules, flags) ==
    IF modules = <<>> THEN flags
    ELSE OrModules(Tail(modules),
                   BitOr(flags, MODULE_FLAG_MAP(Normalize(Head(modules)))))

\* A mapping that returns the OR as it is, 0 included.
OrOnly(modules) == OrModules(modules, 0)

\* map_modules_to_flags(modules): the OR of the recognized names, basic when
\* the list is empty or names nothing recognized.
map_modules_to_flags(modules) ==
    IF modules = <<>> THEN FLAG_BASIC
    ELSE LET flags == OrModules(modules, 0) IN IF flags = 0 THEN FLAG_BASIC ELSE flags

\* The names map_modules_to_flags is called with.
RawModules ==
    {"basic", "statistics", "nsfw", "tags", "face", "vector",
     " Tags ", "NSFW", "Face\n", " ", "bogus", "t ags"}

\* ------------------------------------------------------------ Optional, JSON

None == {}

Some(v) == {v}

\* SQL COALESCE(new, old): new unless it is NULL.
Coalesce(new, old) == IF new # None THEN new ELSE old

\* A dict without keys.
EmptyDict == [k \in {} |-> <<>>]

\* d[key] = value
DictPut(D, key, value) ==
    [k \in DOMAIN D \cup {key} |-> IF k = key THEN value ELSE D[k]]

\* d.get(key, default)
DictGet(D, key, default) == IF key \in DOMAIN D THEN D[key] ELSE default

\* Metadata dicts: "m" holds JSON-stable values only, "mt" holds a tuple-valued
\* EXIF entry, "ml" is "mt" with the tuple as a list.  json.dumps writes a
\* tuple as a JSON array, so "mt" and "ml" have the same text.
JsonDumps(meta) ==
    CASE meta = "m" -> "j_m"
      [] meta = "mt" -> "j_ml"
      [] meta = "ml" -> "j_ml"

\* json.loads reads a JSON array as a list.
JsonLoads(text) ==
    CASE text = "j_m" -> "m"
      [] text = "j_ml" -> "ml"

\* Face payloads: "fd_empty" is the empty dict {} (falsy), "fb0" is
\* {"boxes": []} and "fb1" is {"boxes": [box]} (both truthy).
Truthy(face) == face # None /\ face # Some("fd_empty")

\* meta_json = json.dumps(meta) if meta is not None else None
MetaJsonOf(meta) == IF meta # None THEN {JsonDumps(m) : m \in meta} ELSE None

\* face_bbox_json = json.dumps(face_bbox) if face_bbox else None
FaceJsonOf(face) == IF Truthy(face) THEN face ELSE None

\* ------------------------------------------------------------------ state

VARIABLES
    files,             \* table files: hash -> row (the domain is the stored hashes)
    tags,              \* table tags: name -> [global_count, is_character]
    file_tags,         \* table file_tags: hash -> the tag names linked to it, in insertion order
    clock,             \* datetime.now(): advances with every store write and request
    lastOp,            \* history: the last store operation called directly
    models,            \* ModelManager.models: the names of the loaded engines
    model_last_used,   \* ModelManager.model_last_used: the names holding a timestamp
    pc,                \* per request slot: the position of its scan_image call
    req,               \* per request slot: the request (file_path, modules)
    loc,               \* per request slot: the local variables of scan_image
    result,            \* per request slot: the result dict returned
    eff,               \* history, per request slot: what the call has done so far
    loop,              \* the request slot whose handler body holds the event loop, or 0
    scans,             \* number of requests received so far
    faults,            \* number of environment faults so far
    background_tasks,  \* the update_tag_trends calls scheduled and not yet run
    computed,          \* history: per hash, the outputs of the scans that computed them
    tag_trends,        \* table tag_trends: <<date, tag name>> -> day_count
    today,             \* the current UTC date, as a day number
    sightings,         \* history: per tag name, the sightings ever recorded
    lastTagOp,         \* history: the last tag operation called directly
    trending,          \* the list the last get_weighted_tag_trends call returned
    batch,             \* the scan_batch call: its input, locals and result
    pipe,              \* the process_image_bytes call: its locals and result
    sample,            \* a call of _sample_indices: its arguments and its list
    mapping,           \* a call of map_modules_to_flags: its list and its flags
    mgr,               \* the calls made on the ModelManager directly: the last
                       \* call, the prediction in flight, the slots' idle time
    tokens_json,       \* the file tokens.json: key -> entry (no file: no keys)
    tokens_tmp,        \* the file tokens.json.tmp, or None
    token_call,        \* per auth request slot: the call and its locals
    token_now,         \* int(time.time()), in ticks
    token_table,       \* table tokens: the tokens record_token_use has stored
    token_hist,        \* history: the tokens handed to clients
    http,              \* the request at /check, /batch, /stats or /scan_image
    legacy_stats       \* tables legacy_stats and legacy_tag_counts

vars ==
    <<files, tags, file_tags, clock, lastOp, models, model_last_used,
      pc, req, loc, result, eff, loop, scans, faults, background_tasks, computed,
      tag_trends, today, sightings, lastTagOp, trending, batch, pipe, sample, mapping, mgr,
      tokens_json, tokens_tmp, token_call, token_now, token_table, token_hist, http,
      legacy_stats>>

storeVars == <<files, tags, file_tags>>

managerVars == <<models, model_last_used>>

scanVars == <<pc, req, loc, result, eff, loop, scans, faults, background_tasks, computed>>

trendVars == <<tag_trends, today, sightings, lastTagOp, trending>>

authVars == <<tokens_json, tokens_tmp, token_call, token_now, token_table, token_hist>>

directVars == <<sample, mapping, mgr, authVars, http, legacy_stats>>

batchVars == <<batch, pipe, directVars>>

\* ------------------------------------------------------------ value domains

Hashes == {"h1", "h2"}

StorePaths == {"pA", "pB"}

\* ------------------------------------------------------- core/database.py

\* One row of table files as INSERT writes it.
FileRow(path, flags_done, meta_json, nsfw_score, face_bbox_json, vector_blob, scanned_at) ==
    [path |-> path, flags_done |-> flags_done, meta_json |-> meta_json,
     nsfw_score |-> nsfw_score, face_bbox_json |-> face_bbox_json,
     vector_blob |-> vector_blob, last_scanned |-> scanned_at]

\* A write that purges nothing: every stored row stays.
KeepStalePath(F, path, file_hash) == F

\* DELETE FROM files WHERE path = ? AND hash != ?
DeleteStalePath(F, path, file_hash) ==
    [g \in {x \in DOMAIN F : ~(F[x].path = path /\ x # file_hash)} |-> F[g]]

\* Put row r under file_hash.
PutRow(F, file_hash, r) ==
    [g \in DOMAIN F \cup {file_hash} |-> IF g = file_hash THEN r ELSE F[g]]

\* A flags merge that replaces the stored bits by the incoming ones.
ReplaceFlags(old, new) == new

\* A field merge in which the incoming value, absent or not, always wins.
OverwriteField(new, old) == new

\* flags_done = files.flags_done | excluded.flags_done
MergeFlags(old, new) == BitOr(old, new)

\* upsert: <field> = COALESCE(excluded.<field>, files.<field>)
UpsertField(new, old) == Coalesce(new, old)

\* save: <field> = excluded.<field>
SaveField(new, old) == new

\* ScannerDB.upsert_scan_result, the committed transaction.
UpsertRows(F, file_hash, path, flags_done, meta, nsfw_score, face_bbox, vector_blob, scanned_at) ==
    LET D == DeleteStalePath(F, path, file_hash)
        new == FileRow(path, flags_done, MetaJsonOf(meta), nsfw_score,
                       FaceJsonOf(face_bbox), vector_blob, scanned_at)
        row == IF file_hash \in DOMAIN D
               THEN FileRow(new.path,
                            MergeFlags(D[file_hash].flags_done, new.flags_done),
                            UpsertField(new.meta_json, D[file_hash].meta_json),
                            UpsertField(new.nsfw_score, D[file_hash].nsfw_score),
                            UpsertField(new.face_bbox_json, D[file_hash].face_bbox_json),
                            UpsertField(new.vector_blob, D[file_hash].vector_blob),
                            new.last_scanned)
               ELSE new
    IN PutRow(D, file_hash, row)

\* ScannerDB.save_scan_result, the committed transaction.
SaveRows(F, file_hash, path, flags_done, meta, nsfw_score, face_bbox, vector_blob, scanned_at) ==
    LET D == DeleteStalePath(F, path, file_hash)
        new == FileRow(path, flags_done, MetaJsonOf(meta), nsfw_score,
                       FaceJsonOf(face_bbox), vector_blob, scanned_at)
        row == IF file_hash \in DOMAIN D
               THEN FileRow(new.path,
                            MergeFlags(D[file_hash].flags_done, new.flags_done),
                            SaveField(new.meta_json, D[file_hash].meta_json),
                            SaveField(new.nsfw_score, D[file_hash].nsfw_score),
                            SaveField(new.face_bbox_json, D[file_hash].face_bbox_json),
                            SaveField(new.vector_blob, D[file_hash].vector_blob),
                            new.last_scanned)
               ELSE new
    IN PutRow(D, file_hash, row)

\* ScannerDB.update_file_flags, the committed transaction: UPDATE ... WHERE hash = ?
UpdateFlagsRows(F, file_hash, new_flags) ==
    [g \in DOMAIN F |->
        IF g = file_hash
        THEN [F[g] EXCEPT !.flags_done = MergeFlags(F[g].flags_done, new_flags)]
        ELSE F[g]]

\* ScannerDB.get_file_state: flags_done of the hash, None when there is no row.
get_file_state(F, file_hash) ==
    IF file_hash \in DOMAIN F THEN Some(F[file_hash].flags_done) ELSE None

\* ---------------------------------------------- the store called directly

\* A partial update: the arguments of a write other than hash and path.
Update(flags_done, meta, nsfw_score, face_bbox, vector_blob) ==
    [flags_done |-> flags_done, meta |-> meta, nsfw_score |-> nsfw_score,
     face_bbox |-> face_bbox, vector_blob |-> vector_blob]

\* The partial updates the store is driven with.
StoreUpdates ==
    { Update(FLAG_BASIC, Some("m"), None, None, None),
      Update(FLAG_BASIC, Some("mt"), None, None, None),
      Update(FLAG_NSFW, None, Some(700), None, None),
      Update(FLAG_TAGS, None, None, None, None),
      Update(FLAG_FACE, None, None, Some("fd_empty"), None),
      Update(FLAG_FACE + FLAG_VECTOR, None, None, Some("fb1"), Some("v1")),
      Update(FLAG_BASIC + FLAG_NSFW + FLAG_TAGS + FLAG_FACE + FLAG_VECTOR,
             Some("m"), Some(0), Some("fb0"), Some("v1")) }

StoreFlagInputs == {FLAG_BASIC, FLAG_NSFW + FLAG_TAGS, FLAG_FACE + FLAG_VECTOR}

NoUpdate == Update(0, None, None, None, None)

\* upsert_scan_result with the update u at time scanned_at.
ApplyUpsert(F, file_hash, path, u, scanned_at) ==
    UpsertRows(F, file_hash, path, u.flags_done, u.meta, u.nsfw_score,
               u.face_bbox, u.vector_blob, scanned_at)

\* save_scan_result with the update u at time scanned_at.
ApplySave(F, file_hash, path, u, scanned_at) ==
    SaveRows(F, file_hash, path, u.flags_done, u.meta, u.nsfw_score,
             u.face_bbox, u.vector_blob, scanned_at)

OpRecord(op, ok, file_hash, path, u, before) ==
    [op |-> op, ok |-> ok, file_hash |-> file_hash, path |-> path, u |-> u,
     before |-> before]

\* A store call that hits sqlite3.Error: the transaction is rolled back, the
\* error is logged and the call returns.
StoreError(op) ==
    /\ clock < MaxWrites
    /\ clock' = clock + 1
    /\ lastOp' = OpRecord(op, FALSE, "h1", "pA", NoUpdate, files)
    /\ UNCHANGED <<storeVars, managerVars, scanVars>>
    /\ UNCHANGED <<trendVars, batchVars>>

\* ScannerDB.upsert_scan_result(file_hash, path, flags_done, meta, ...)
upsert_scan_result(file_hash, path, u) ==
    /\ clock < MaxWrites
    /\ clock' = clock + 1
    /\ files' = ApplyUpsert(files, file_hash, path, u, clock')
    /\ lastOp' = OpRecord("upsert_scan_result", TRUE, file_hash, path, u, files)
    /\ UNCHANGED <<tags, file_tags, managerVars, scanVars>>
    /\ UNCHANGED <<trendVars, batchVars>>

\* ScannerDB.save_scan_result(file_hash, path, flags_done, meta, ...)
save_scan_result(file_hash, path, u) ==
    /\ clock < MaxWrites
    /\ clock' = clock + 1
    /\ files' = ApplySave(files, file_hash, path, u, clock')
    /\ lastOp' = OpRecord("save_scan_result", TRUE, file_hash, path, u, files)
    /\ UNCHANGED <<tags, file_tags, managerVars, scanVars>>
    /\ UNCHANGED <<trendVars, batchVars>>

\* ScannerDB.update_file_flags(file_hash, new_flags)
update_file_flags(file_hash, new_flags) ==
    /\ clock < MaxWrites
    /\ clock' = clock + 1
    /\ files' = UpdateFlagsRows(files, file_hash, new_flags)
    /\ lastOp' = OpRecord("update_file_flags", TRUE, file_hash, "pA",
                          Update(new_flags, None, None, None, None), files)
    /\ UNCHANGED <<tags, file_tags, managerVars, scanVars>>
    /\ UNCHANGED <<trendVars, batchVars>>

\* ------------------------------------------------- tags and associations

RECURSIVE Dedupe(_, _)
\* list(dict.fromkeys(xs)) without the empty strings: first occurrences, in order.
Dedupe(xs, seen) ==
    IF xs = <<>> THEN <<>>
    ELSE IF Head(xs) \in seen \/ Head(xs) = ""
         THEN Dedupe(Tail(xs), seen)
         ELSE <<Head(xs)>> \o Dedupe(Tail(xs), seen \cup {Head(xs)})

SeqToSet(xs) == {xs[i] : i \in DOMAIN xs}

RECURSIVE Filter(_, _)
\* The elements of xs that are in keep, in order.
Filter(xs, keep) ==
    IF xs = <<>> THEN <<>>
    ELSE IF Head(xs) \in keep
         THEN <<Head(xs)>> \o Filter(Tail(xs), keep)
         ELSE Filter(Tail(xs), keep)

\* save_tags: the tags that get a row in tags and an association: the
\* de-duplicated non-empty names of tags_list.
SavedTagNames(tags_list, character_tags_list) == Dedupe(tags_list, {})

\* save_tags: INSERT OR IGNORE INTO tags (name, global_count, is_character)
InsertTagRows(T, names, character_tags) ==
    [n \in DOMAIN T \cup SeqToSet(names) |->
        IF n \in DOMAIN T THEN T[n]
        ELSE [global_count |-> 0, is_character |-> n \in character_tags]]

\* ScannerDB.save_tags, the committed transaction, on table tags.
SaveTagsTable(T, tags_list, character_tags_list) ==
    InsertTagRows(T, SavedTagNames(tags_list, character_tags_list),
                  SeqToSet(character_tags_list) \ {""})

\* ScannerDB.save_tags, the committed transaction, on table file_tags:
\* DELETE the associations of file_hash, INSERT one per saved tag.
SaveTagsLinks(L, file_hash, tags_list, character_tags_list) ==
    [L EXCEPT ![file_hash] = SavedTagNames(tags_list, character_tags_list)]

\* ScannerDB.get_tags_for_hash: the linked names, split by tags.is_character.
get_tags_for_hash(T, L, file_hash) ==
    LET names == L[file_hash]
        chars == {n \in DOMAIN T : T[n].is_character}
    IN [tags |-> Filter(names, SeqToSet(names) \ chars),
        characters |-> Filter(names, chars)]

\* ScannerDB.get_file_record: None when there is no row, else the row's
\* flags, decoded metadata and score with the tags of the hash.
get_file_record(F, T, L, file_hash) ==
    IF file_hash \notin DOMAIN F THEN None
    ELSE LET row == F[file_hash]
             t == get_tags_for_hash(T, L, file_hash)
         IN Some([flags_done |-> row.flags_done,
                  meta_json |-> {JsonLoads(x) : x \in row.meta_json},
                  nsfw_score |-> row.nsfw_score,
                  tags |-> t.tags,
                  characters |-> t.characters])

\* -------------------------------------------------- core/model_manager.py

ModelNames == {"nsfw", "tags", "face", "clip"}

\* free_pct >= 15.0
VramThreshold == 15

\* _get_free_vram_percent(): None without torch/CUDA, else the free percentage.
VramReadings == {None, Some(14), Some(15)}

\* An admission that refuses every request when headroom is low.
can_run_light_only(flags, free_pct) ==
    IF free_pct = None THEN TRUE
    ELSE IF \A f \in free_pct : f >= VramThreshold THEN TRUE
    ELSE FALSE

\* ModelManager.can_run_flags(flags), given the headroom it reads.
can_run_flags(flags, free_pct) ==
    IF free_pct = None THEN TRUE
    ELSE IF \A f \in free_pct : f >= VramThreshold THEN TRUE
    ELSE IF BitAnd(flags, FLAG_TAGS + FLAG_FACE + FLAG_VECTOR) # 0 THEN FALSE
    ELSE TRUE

\* The slots the flags require.
RequiredSlots(flags) ==
    {n \in ModelNames :
        \/ n = "nsfw" /\ FLAG_NSFW \in Bits(flags)
        \/ n = "tags" /\ FLAG_TAGS \in Bits(flags)
        \/ n = "face" /\ FLAG_FACE \in Bits(flags)
        \/ n = "clip" /\ FLAG_VECTOR \in Bits(flags)}

\* Eviction targets that include the slots the flags require.
AllLoadedTargets(M, flags) == Filter(<<"tags", "clip", "face">>, M)

\* ModelManager._unload_priority_targets(flags)
unload_priority_targets(M, flags) ==
    Filter(<<"tags", "clip", "face">>, M \ RequiredSlots(flags))

\* ModelManager._unload_models(model_names): the slots left ("nsfw" is skipped).
unload_models(M, model_names) == M \ (SeqToSet(model_names) \ {"nsfw"})

\* ModelManager._ensure_vram_capacity(flags): the slots left loaded.
ensure_vram_capacity(M, flags, free_pct) ==
    IF free_pct = None \/ (\A f \in free_pct : f >= VramThreshold) THEN M
    ELSE unload_models(M, unload_priority_targets(M, flags))

\* What one loader call does: "ok" (loaded), "fail" (weights or dependency
\* missing, or an OSError the loader catches: logged, slot stays unloaded),
\* "raise" (an error of the YOLO or open_clip constructor, which the face and
\* clip loaders do not catch).
LoadOutcomes ==
    {o \in [ModelNames -> {"ok", "fail", "raise"}] :
        o["nsfw"] # "raise" /\ o["tags"] # "raise"}

LoadOrder == <<"nsfw", "tags", "face", "clip">>

RECURSIVE RunLoaders(_, _, _, _)
\* The loaders of load_models_for_flags in order, on the slots M: a loader runs
\* when its flag is set and its slot is not loaded; a raise ends the call.
RunLoaders(M, order, flags, outcome) ==
    IF order = <<>> THEN [models |-> M, raised |-> FALSE]
    ELSE LET n == Head(order) IN
         IF n \in RequiredSlots(flags) /\ n \notin M
         THEN CASE outcome[n] = "ok" -> RunLoaders(M \cup {n}, Tail(order), flags, outcome)
                [] outcome[n] = "fail" -> RunLoaders(M, Tail(order), flags, outcome)
                [] outcome[n] = "raise" -> [models |-> M, raised |-> TRUE]
         ELSE RunLoaders(M, Tail(order), flags, outcome)

\* ModelManager.load_models_for_flags(flags): eviction under pressure, then the loaders.
load_models_for_flags(M, flags, free_pct, outcome) ==
    RunLoaders(ensure_vram_capacity(M, flags, free_pct), LoadOrder, flags, outcome)

\* Timestamps that outlive their slot: set with a loaded slot, never dropped.
LastUsedNeverDropped(U, M, M2) == U \cup (M2 \ M)

\* The timestamps after load_models_for_flags: dropped with an unloaded slot,
\* set with a loaded one.
LastUsedAfterLoad(U, M, M2) == (U \ (M \ M2)) \cup (M2 \ M)

\* ------------------------------------------- the files on disk, the requests

Slots == {1, 2}

\* Request paths: pA and pCorrupt are files under the allowed roots, pOut is a
\* file outside them, pDir is a directory, pMissing does not exist, "" is the
\* empty string.
ScanPaths == {"", "pA", "pOut", "pDir", "pMissing", "pCorrupt"}

PathKind(p) ==
    CASE p \in {"pA", "pOut", "pCorrupt"} -> "file"
      [] p = "pDir" -> "dir"
      [] OTHER -> "missing"

InRoots(p) == p \in {"pA", "pCorrupt", "pDir"}

\* image_utils.calculate_hash: pA and pOut hold the same bytes.
ContentOf(p) == IF p = "pCorrupt" THEN "h2" ELSE "h1"

\* image_utils.is_image_corrupt, by content.
IsCorrupt(h) == h = "h2"

\* SCAN_ALLOWED_ROOTS: not set, naming existing directories, or naming a
\* directory that does not exist.
RootsEnv == {"unset", "set", "set_missing"}

\* request.modules
ScanModules ==
    { <<>>, <<"nsfw">>, <<"tags">>, <<"statistics", "tags">>, <<"face", "vector">> }

\* What the engines give for a content when they work.
ContentMeta(h) == "mt"

ContentScore(h) == 700

ContentTags(h) == [tags |-> <<"g1">>, characters |-> <<"c1">>]

ContentFace(h) == "fb1"

ContentVector(h) == "v1"

NoTags == [tags |-> <<>>, characters |-> <<>>]

\* routers/legacy_api.py _resolve_scan_path: the resolved path or None, or an
\* exception when a configured root does not exist (Path.resolve(strict=True)
\* of the roots is outside any try).
resolve_scan_path(raw_path, roots) ==
    IF raw_path = "" THEN [raised |-> FALSE, resolved |-> None]
    ELSE IF PathKind(raw_path) = "missing" THEN [raised |-> FALSE, resolved |-> None]
    ELSE IF PathKind(raw_path) # "file" THEN [raised |-> FALSE, resolved |-> None]
    ELSE IF roots = "unset" THEN [raised |-> FALSE, resolved |-> Some(raw_path)]
    ELSE IF roots = "set_missing" THEN [raised |-> TRUE, resolved |-> None]
    ELSE IF ~InRoots(raw_path) THEN [raised |-> FALSE, resolved |-> None]
    ELSE [raised |-> FALSE, resolved |-> Some(raw_path)]

\* The request path is missing, not a file, or outside the allowed roots.
InvalidPath(raw_path, roots) ==
    PathKind(raw_path) # "file" \/ (roots # "unset" /\ ~InRoots(raw_path))

\* The result dict of scan_image.
Result(file_path, error, statistics, nsfw_score, tags_data) ==
    [file_path |-> file_path, error |-> error,
     statistics |-> statistics,
     nsfw_score |-> IF nsfw_score # None THEN CHOOSE x \in nsfw_score : TRUE ELSE 0,
     tags |-> tags_data.tags \o tags_data.characters]

NoResult == Result("", None, None, None, NoTags)

InitLoc ==
    [path |-> "", flags |-> 0, file_hash |-> "", existing |-> None,
     flags_done |-> 0, needed_now |-> 0, meta |-> None, nsfw_score |-> None,
     face_bbox |-> None, vector_blob |-> None, tags_data |-> NoTags]

\* history of one call: bad_path (the request path is invalid), fresh (the
\* content had no row when the request arrived), concurrent (another request
\* was in flight with it), needed (needed_now as first computed), validated
\* (is_image_corrupt ran), admission (can_run_flags ran), denied, loads
\* (load_models_for_flags ran), invoked (the capabilities run, in order),
\* ok_bits (the bits of those that succeeded), failed (those that did not),
\* store_errors (a store call of the call failed), writes (the store calls made),
\* failed_writes (the store writes of the call that hit sqlite3.Error).
InitEff ==
    [bad_path |-> FALSE, fresh |-> FALSE, concurrent |-> FALSE, needed |-> None,
     validated |-> FALSE, admission |-> FALSE, denied |-> FALSE, loads |-> FALSE,
     invoked |-> <<>>, ok_bits |-> 0, failed |-> {}, store_errors |-> FALSE,
     writes |-> <<>>, failed_writes |-> {}]

InFlight == {"verify", "ready", "hash", "record", "validate", "admit", "load", "basic",
             "nsfw", "tags", "face", "vector", "result", "upsert", "save_tags", "return"}

Terminal == {"done", "raised", "http401"}

\* A dispatch in which the face capability comes last.
FaceLastOrder == <<"basic", "nsfw", "tags", "vector", "face">>

\* The order of the if statements of scan_image, lines 118-145.
CapOrder == <<"basic", "nsfw", "tags", "face", "vector">>

CapBit(cap) ==
    CASE cap = "basic" -> FLAG_BASIC
      [] cap = "nsfw" -> FLAG_NSFW
      [] cap = "tags" -> FLAG_TAGS
      [] cap = "face" -> FLAG_FACE
      [] cap = "vector" -> FLAG_VECTOR

\* needed_now = flags & ~flags_done
NeededNow(flags, flags_done) == BitAndNot(flags, flags_done)

\* A validation that runs whatever is needed.
AlwaysValidates(needed_now) == TRUE

\* A denial that clears only the bits of the heavy capabilities.
KeepLightFlags(needed_now, admitted) ==
    IF admitted THEN needed_now ELSE BitAnd(needed_now, FLAG_BASIC + FLAG_NSFW)

\* if needed_now and image_utils.is_image_corrupt(path): the validation runs.
RunsValidation(needed_now) == needed_now # 0

\* if not model_manager.can_run_flags(needed_now): needed_now = 0
NeededAfterAdmission(needed_now, admitted) == IF admitted THEN needed_now ELSE 0

\* if needed_now: db.upsert_scan_result(...)
RunsPersist(needed_now) == needed_now # 0

\* if tags_data.get("tags") or tags_data.get("characters"): db.save_tags(...)
RunsSaveTags(tags_data) == tags_data.tags # <<>> \/ tags_data.characters # <<>>

RECURSIVE NextCap(_, _)
\* The next statement of scan_image whose condition holds: the first
\* capability of caps whose bit is in needed_now, else the result lines.
NextCap(needed_now, caps) ==
    IF caps = <<>> THEN "result"
    ELSE IF CapBit(Head(caps)) \in Bits(needed_now) THEN Head(caps)
    ELSE NextCap(needed_now, Tail(caps))

\* The capabilities after cap in the order of the if statements.
CapsAfter(cap) ==
    CASE cap = "basic" -> SubSeq(CapOrder, 2, 5)
      [] cap = "nsfw" -> SubSeq(CapOrder, 3, 5)
      [] cap = "tags" -> SubSeq(CapOrder, 4, 5)
      [] cap = "face" -> SubSeq(CapOrder, 5, 5)
      [] cap = "vector" -> <<>>

\* With needed_now = 0 every if of lines 103-146 is false.
AfterRecord(needed_now) == IF RunsValidation(needed_now) THEN "validate" ELSE "result"

\* history: the outputs the clean scans of a content computed.
NoComputed == [bits |-> 0, statistics |-> None, nsfw_score |-> None, tags |-> None]

\* A call in which no capability failed, no store call failed and admission
\* was not denied.
Clean(e) == e.failed = {} /\ ~e.store_errors /\ ~e.denied

\* history: the account of a call that ends at newpc with result res.
Account(C, l, e, res, newpc) ==
    IF l.file_hash = "" THEN C
    ELSE LET h == l.file_hash
             ran == SeqToSet(e.invoked)
             keep == newpc = "done" /\ res.error = None /\ Clean(e)
         IN [C EXCEPT ![h] =
               [bits |-> BitOr(@.bits, e.ok_bits),
                statistics |-> IF keep /\ "basic" \in ran THEN Some(res.statistics)
                               ELSE @.statistics,
                nsfw_score |-> IF keep /\ "nsfw" \in ran THEN Some(res.nsfw_score)
                               ELSE @.nsfw_score,
                tags |-> IF keep /\ "tags" \in ran THEN Some(SeqToSet(res.tags))
                         ELSE @.tags]]

\* n environment faults happen in this step.
Faults(n) == faults + n <= MaxFaults /\ faults' = faults + n

\* One step inside the handler body.
Advance(s, newpc, l, e) ==
    /\ pc' = [pc EXCEPT ![s] = newpc]
    /\ loc' = [loc EXCEPT ![s] = l]
    /\ eff' = [eff EXCEPT ![s] = e]
    /\ UNCHANGED <<req, result, loop, scans, background_tasks, computed>>

\* The step that ends the call: it returns res (newpc "done") or an
\* exception leaves the handler (newpc "raised").
Finish(s, newpc, res, l, e) ==
    /\ pc' = [pc EXCEPT ![s] = newpc]
    /\ loc' = [loc EXCEPT ![s] = l]
    /\ eff' = [eff EXCEPT ![s] = e]
    /\ result' = [result EXCEPT ![s] = res]
    /\ loop' = 0
    /\ computed' = Account(computed, l, e, res, newpc)
    /\ UNCHANGED <<req, scans, background_tasks>>

\* --------------------------------------------- the engines' predictions

PredictOutcomes == {"ok", "error"}

\* image_utils.get_image_metadata under the try of scan_image: the metadata,
\* or the previous value when OSError/ValueError is caught and logged.
RunBasic(meta, h, outcome) ==
    IF outcome = "ok" THEN [value |-> Some(ContentMeta(h)), ok |-> TRUE, raised |-> FALSE]
    ELSE [value |-> meta, ok |-> FALSE, raised |-> FALSE]

\* ModelManager.predict_nsfw: 0.0 when the slot is not loaded or the
\* prediction raises (caught), else the score.
predict_nsfw(M, h, outcome) ==
    IF "nsfw" \notin M THEN [value |-> 0, ok |-> FALSE, raised |-> FALSE]
    ELSE IF outcome = "ok" THEN [value |-> ContentScore(h), ok |-> TRUE, raised |-> FALSE]
    ELSE [value |-> 0, ok |-> FALSE, raised |-> FALSE]

\* ModelManager.predict_tags: empty lists when the slot is not loaded, and
\* when the vocabulary is empty or the prediction raises (caught): "error".
predict_tags(M, h, outcome) ==
    IF "tags" \notin M THEN [value |-> NoTags, ok |-> FALSE, raised |-> FALSE]
    ELSE IF outcome = "ok" THEN [value |-> ContentTags(h), ok |-> TRUE, raised |-> FALSE]
    ELSE [value |-> NoTags, ok |-> FALSE, raised |-> FALSE]

\* ModelManager.predict_face_bboxes: [] when the slot is not loaded; an error
\* of the model call is not caught.
predict_face_bboxes(M, h, outcome) ==
    IF "face" \notin M THEN [value |-> "fb0", ok |-> FALSE, raised |-> FALSE]
    ELSE IF outcome = "ok" THEN [value |-> ContentFace(h), ok |-> TRUE, raised |-> FALSE]
    ELSE [value |-> "fb0", ok |-> FALSE, raised |-> TRUE]

\* ModelManager.predict_clip_embedding: None when the slot is not loaded; an
\* error of the image read or of the model call is not caught.
predict_clip_embedding(M, h, outcome) ==
    IF "clip" \notin M THEN [value |-> None, ok |-> FALSE, raised |-> FALSE]
    ELSE IF outcome = "ok"
    THEN [value |-> Some(ContentVector(h)), ok |-> TRUE, raised |-> FALSE]
    ELSE [value |-> None, ok |-> FALSE, raised |-> TRUE]

\* A touch that stamps the slot whether or not the prediction ran.
TouchAlways(U, name, ok) == U \cup {name}

\* ModelManager._touch_model(name), reached when the prediction succeeded.
touch_model(U, name, ok) == IF ok THEN U \cup {name} ELSE U

\* The slots load_models_for_flags(flags) calls a loader for, when no loader raises.
Attempted(M, flags, free_pct) == RequiredSlots(flags) \ ensure_vram_capacity(M, flags, free_pct)

\* The reading is below the threshold.
LowVram(free_pct) == \E f \in free_pct : f < VramThreshold

\* history: the call invoked capability cap and it succeeded or not.
Invoked(e, cap, ok) ==
    [e EXCEPT !.invoked = Append(@, cap),
              !.ok_bits = IF ok THEN BitOr(@, CapBit(cap)) ELSE @,
              !.failed = IF ok THEN @ ELSE @ \cup {cap}]

\* ------------------------------------------ routers/legacy_api.py scan_image

\* A request arrives at POST /scan_image.
Start(s, file_path, modules) ==
    /\ pc[s] \in Terminal \cup {"idle"}
    /\ scans < MaxScans
    /\ scans' = scans + 1
    /\ pc' = [pc EXCEPT ![s] = "verify"]
    /\ req' = [req EXCEPT ![s] = [file_path |-> file_path, modules |-> modules]]
    /\ loc' = [loc EXCEPT ![s] = InitLoc]
    /\ result' = [result EXCEPT ![s] = NoResult]
    /\ LET busy == \E t \in Slots \ {s} : pc[t] \in InFlight IN
       eff' = [t \in Slots |->
                 IF t = s
                 THEN [InitEff EXCEPT
                         !.fresh = PathKind(file_path) = "file"
                                   /\ ContentOf(file_path) \notin DOMAIN files,
                         !.concurrent = busy]
                 ELSE IF pc[t] \in InFlight THEN [eff[t] EXCEPT !.concurrent = TRUE]
                 ELSE eff[t]]
    /\ UNCHANGED <<storeVars, clock, lastOp, managerVars, loop, faults, background_tasks,
                   computed>>
    /\ UNCHANGED <<trendVars, batchVars>>

\* if not await verify_token(request.token): raise HTTPException(401)
VerifyToken(s) ==
    /\ pc[s] = "verify"
    /\ \E valid \in BOOLEAN :
         /\ pc' = [pc EXCEPT ![s] = IF valid THEN "ready" ELSE "http401"]
         /\ Faults(IF valid THEN 0 ELSE 1)
    /\ UNCHANGED <<storeVars, clock, lastOp, managerVars, req, loc, result, eff, loop,
                   scans, background_tasks, computed>>
    /\ UNCHANGED <<trendVars, batchVars>>

\* resolved = _resolve_scan_path(request.file_path); flags = map_modules_to_flags(...)
\* The handler body has no await: it holds the event loop until it returns.
Resolve(s) ==
    /\ pc[s] = "ready"
    /\ loop = 0
    /\ \E roots \in RootsEnv :
         LET r == resolve_scan_path(req[s].file_path, roots)
             e == [eff[s] EXCEPT !.bad_path = InvalidPath(req[s].file_path, roots)]
         IN /\ Faults(IF roots = "set_missing" THEN 1 ELSE 0)
            /\ IF r.raised
               THEN Finish(s, "raised", NoResult, loc[s], e)
               ELSE IF r.resolved = None
               THEN Finish(s, "done",
                           Result(req[s].file_path, Some("Failed to read file"), None,
                                  Some(0), NoTags),
                           loc[s], e)
               ELSE /\ pc' = [pc EXCEPT ![s] = "hash"]
                    /\ loc' = [loc EXCEPT ![s] =
                                 [@ EXCEPT !.path = CHOOSE x \in r.resolved : TRUE,
                                           !.flags = map_modules_to_flags(req[s].modules)]]
                    /\ eff' = [eff EXCEPT ![s] = e]
                    /\ loop' = s
                    /\ UNCHANGED <<req, result, scans, background_tasks, computed>>
    /\ UNCHANGED <<storeVars, clock, lastOp, managerVars>>
    /\ UNCHANGED <<trendVars, batchVars>>

\* file_hash = image_utils.calculate_hash(path), OSError gives the error result.
Hash(s) ==
    /\ pc[s] = "hash"
    /\ loop = s
    /\ \E readable \in BOOLEAN :
         /\ Faults(IF readable THEN 0 ELSE 1)
         /\ IF readable
            THEN Advance(s, "record",
                         [loc[s] EXCEPT !.file_hash = ContentOf(loc[s].path)], eff[s])
            ELSE Finish(s, "done",
                        Result(loc[s].path, Some("Failed to read file"), None, Some(0),
                               NoTags),
                        loc[s], eff[s])
    /\ UNCHANGED <<storeVars, clock, lastOp, managerVars>>
    /\ UNCHANGED <<trendVars, batchVars>>

\* existing = db.get_file_record(file_hash) or {} and the locals read from it
\* (get_file_record returns None on sqlite3.Error).
GetRecord(s) ==
    /\ pc[s] = "record"
    /\ loop = s
    /\ \E dbok \in BOOLEAN :
         LET existing == IF dbok
                         THEN get_file_record(files, tags, file_tags, loc[s].file_hash)
                         ELSE None
             flags_done == IF existing = None THEN 0
                           ELSE (CHOOSE x \in existing : TRUE).flags_done
             needed_now == NeededNow(loc[s].flags, flags_done)
         IN /\ Faults(IF dbok THEN 0 ELSE 1)
            /\ Advance(s, AfterRecord(needed_now),
                    [loc[s] EXCEPT
                       !.existing = existing,
                       !.flags_done = flags_done,
                       !.needed_now = needed_now,
                       !.meta = IF existing = None THEN None
                                ELSE (CHOOSE x \in existing : TRUE).meta_json,
                       !.nsfw_score = IF existing = None THEN None
                                      ELSE (CHOOSE x \in existing : TRUE).nsfw_score,
                       !.tags_data = IF existing = None THEN NoTags
                                     ELSE [tags |-> (CHOOSE x \in existing : TRUE).tags,
                                           characters |->
                                             (CHOOSE x \in existing : TRUE).characters]],
                    [eff[s] EXCEPT !.needed = Some(needed_now),
                                   !.store_errors = @ \/ ~dbok])
    /\ UNCHANGED <<storeVars, clock, lastOp, managerVars>>
    /\ UNCHANGED <<trendVars, batchVars>>

\* if needed_now and image_utils.is_image_corrupt(path): return the error result
Validate(s) ==
    /\ pc[s] = "validate"
    /\ loop = s
    /\ LET e == [eff[s] EXCEPT !.validated = TRUE] IN
       IF IsCorrupt(loc[s].file_hash)
       THEN Finish(s, "done",
                   Result(loc[s].path, Some("Corrupt or unreadable image"),
                          loc[s].meta, loc[s].nsfw_score, loc[s].tags_data),
                   loc[s], e)
       ELSE Advance(s, IF loc[s].needed_now # 0 THEN "admit" ELSE "result", loc[s], e)
    /\ UNCHANGED <<storeVars, clock, lastOp, managerVars, faults>>
    /\ UNCHANGED <<trendVars, batchVars>>

\* if needed_now: if not model_manager.can_run_flags(needed_now): needed_now = 0
Admit(s) ==
    /\ pc[s] = "admit"
    /\ loop = s
    /\ \E free_pct \in VramReadings :
         LET admitted == can_run_flags(loc[s].needed_now, free_pct)
             needed_now == NeededAfterAdmission(loc[s].needed_now, admitted)
         IN /\ Faults(IF LowVram(free_pct) THEN 1 ELSE 0)
            /\ Advance(s, IF admitted THEN "load" ELSE NextCap(needed_now, CapOrder),
                       [loc[s] EXCEPT !.needed_now = needed_now],
                       [eff[s] EXCEPT !.admission = TRUE, !.denied = ~admitted])
    /\ UNCHANGED <<storeVars, clock, lastOp, managerVars>>
    /\ UNCHANGED <<trendVars, batchVars>>

\* else: model_manager.load_models_for_flags(needed_now)
Load(s) ==
    /\ pc[s] = "load"
    /\ loop = s
    /\ \E free_pct \in VramReadings, outcome \in LoadOutcomes :
         LET r == load_models_for_flags(models, loc[s].needed_now, free_pct, outcome)
             e == [eff[s] EXCEPT !.loads = TRUE]
             bad == {n \in ModelNames : outcome[n] # "ok"}
         IN /\ bad \subseteq Attempted(models, loc[s].needed_now, free_pct)
            /\ Faults(Cardinality(bad) + (IF LowVram(free_pct) THEN 1 ELSE 0))
            /\ models' = r.models
            /\ model_last_used' = LastUsedAfterLoad(model_last_used, models, r.models)
            /\ IF r.raised
               THEN Finish(s, "raised", NoResult, loc[s], e)
               ELSE Advance(s, NextCap(loc[s].needed_now, CapOrder), loc[s], e)
    /\ UNCHANGED <<storeVars, clock, lastOp>>
    /\ UNCHANGED <<trendVars, batchVars>>

\* if needed_now & FLAG_BASIC: meta = image_utils.get_image_metadata(path)
Basic(s) ==
    /\ pc[s] = "basic"
    /\ loop = s
    /\ \E outcome \in PredictOutcomes :
         LET r == RunBasic(loc[s].meta, loc[s].file_hash, outcome) IN
         /\ Faults(IF outcome = "ok" THEN 0 ELSE 1)
         /\ Advance(s, NextCap(loc[s].needed_now, CapsAfter("basic")),
                    [loc[s] EXCEPT !.meta = r.value], Invoked(eff[s], "basic", r.ok))
    /\ UNCHANGED <<storeVars, clock, lastOp, managerVars>>
    /\ UNCHANGED <<trendVars, batchVars>>

\* if needed_now & FLAG_NSFW: nsfw_score = model_manager.predict_nsfw(path)
Nsfw(s) ==
    /\ pc[s] = "nsfw"
    /\ loop = s
    /\ \E outcome \in PredictOutcomes :
         LET r == predict_nsfw(models, loc[s].file_hash, outcome) IN
         /\ outcome = "error" => "nsfw" \in models
         /\ Faults(IF outcome = "ok" THEN 0 ELSE 1)
         /\ Advance(s, NextCap(loc[s].needed_now, CapsAfter("nsfw")),
                    [loc[s] EXCEPT !.nsfw_score = Some(r.value)],
                    Invoked(eff[s], "nsfw", r.ok))
         /\ model_last_used' = touch_model(model_last_used, "nsfw", r.ok)
    /\ UNCHANGED <<storeVars, clock, lastOp, models>>
    /\ UNCHANGED <<trendVars, batchVars>>

\* if needed_now & FLAG_TAGS: tags_data = model_manager.predict_tags(path)
Tags(s) ==
    /\ pc[s] = "tags"
    /\ loop = s
    /\ \E outcome \in PredictOutcomes :
         LET r == predict_tags(models, loc[s].file_hash, outcome) IN
         /\ outcome = "error" => "tags" \in models
         /\ Faults(IF outcome = "ok" THEN 0 ELSE 1)
         /\ Advance(s, NextCap(loc[s].needed_now, CapsAfter("tags")),
                    [loc[s] EXCEPT !.tags_data = r.value],
                    Invoked(eff[s], "tags", r.ok))
         /\ model_last_used' = touch_model(model_last_used, "tags", r.ok)
    /\ UNCHANGED <<storeVars, clock, lastOp, models>>
    /\ UNCHANGED <<trendVars, batchVars>>

\* if needed_now & FLAG_FACE: face_bbox = {"boxes": model_manager.predict_face_bboxes(path)}
Face(s) ==
    /\ pc[s] = "face"
    /\ loop = s
    /\ \E outcome \in PredictOutcomes :
         LET r == predict_face_bboxes(models, loc[s].file_hash, outcome)
             e == Invoked(eff[s], "face", r.ok)
         IN /\ outcome = "error" => "face" \in models
            /\ Faults(IF outcome = "ok" THEN 0 ELSE 1)
            /\ IF r.raised
               THEN Finish(s, "raised", NoResult, loc[s], e)
               ELSE Advance(s, NextCap(loc[s].needed_now, CapsAfter("face")),
                            [loc[s] EXCEPT !.face_bbox = Some(r.value)], e)
            /\ model_last_used' = touch_model(model_last_used, "face", r.ok)
    /\ UNCHANGED <<storeVars, clock, lastOp, models>>
    /\ UNCHANGED <<trendVars, batchVars>>

\* if needed_now & FLAG_VECTOR: vector_blob = model_manager.predict_clip_embedding(path)
Vector(s) ==
    /\ pc[s] = "vector"
    /\ loop = s
    /\ \E outcome \in PredictOutcomes :
         LET r == predict_clip_embedding(models, loc[s].file_hash, outcome)
             e == Invoked(eff[s], "vector", r.ok)
         IN /\ outcome = "error" => "clip" \in models
            /\ Faults(IF outcome = "ok" THEN 0 ELSE 1)
            /\ IF r.raised
               THEN Finish(s, "raised", NoResult, loc[s], e)
               ELSE Advance(s, NextCap(loc[s].needed_now, CapsAfter("vector")),
                            [loc[s] EXCEPT !.vector_blob = r.value], e)
            /\ model_last_used' = touch_model(model_last_used, "clip", r.ok)
    /\ UNCHANGED <<storeVars, clock, lastOp, models>>
    /\ UNCHANGED <<trendVars, batchVars>>

\* result["statistics"], result["nsfw_score"], result["tags"]
BuildResult(s) ==
    /\ pc[s] = "result"
    /\ loop = s
    /\ pc' = [pc EXCEPT ![s] = IF RunsPersist(loc[s].needed_now) THEN "upsert" ELSE "return"]
    /\ result' = [result EXCEPT ![s] =
                    Result(loc[s].path, None, loc[s].meta, loc[s].nsfw_score,
                           loc[s].tags_data)]
    /\ UNCHANGED <<storeVars, clock, lastOp, managerVars, req, loc, eff, loop, scans,
                   faults, background_tasks, computed>>
    /\ UNCHANGED <<trendVars, batchVars>>

\* if needed_now: db.upsert_scan_result(file_hash, path, needed_now, ...)
\* (sqlite3.Error is caught and logged inside the store call).
Persist(s) ==
    /\ pc[s] = "upsert"
    /\ loop = s
    /\ \E dbok \in BOOLEAN :
         /\ Faults(IF dbok THEN 0 ELSE 1)
         /\ clock' = clock + 1
         /\ files' = IF dbok
                     THEN UpsertRows(files, loc[s].file_hash, loc[s].path,
                                     loc[s].needed_now, loc[s].meta, loc[s].nsfw_score,
                                     loc[s].face_bbox, loc[s].vector_blob, clock')
                     ELSE files
         /\ Advance(s, IF RunsSaveTags(loc[s].tags_data) THEN "save_tags" ELSE "return",
                    loc[s],
                    [eff[s] EXCEPT !.writes = Append(@, "upsert_scan_result"),
                                   !.store_errors = @ \/ ~dbok,
                                   !.failed_writes =
                                      IF dbok THEN @ ELSE @ \cup {"upsert_scan_result"}])
    /\ UNCHANGED <<tags, file_tags, lastOp, managerVars>>
    /\ UNCHANGED <<trendVars, batchVars>>

\* db.save_tags(file_hash, tags, characters) and
\* background_tasks.add_task(db.update_tag_trends, tags + characters)
SaveTags(s) ==
    /\ pc[s] = "save_tags"
    /\ loop = s
    /\ \E dbok \in BOOLEAN :
         /\ Faults(IF dbok THEN 0 ELSE 1)
         /\ tags' = IF dbok
                    THEN SaveTagsTable(tags, loc[s].tags_data.tags,
                                       loc[s].tags_data.characters)
                    ELSE tags
         /\ file_tags' = IF dbok
                         THEN SaveTagsLinks(file_tags, loc[s].file_hash,
                                            loc[s].tags_data.tags,
                                            loc[s].tags_data.characters)
                         ELSE file_tags
         /\ pc' = [pc EXCEPT ![s] = "return"]
         /\ eff' = [eff EXCEPT ![s] =
                      [@ EXCEPT !.writes = @ \o <<"save_tags", "update_tag_trends">>,
                                !.store_errors = @ \/ ~dbok,
                                !.failed_writes = IF dbok THEN @ ELSE @ \cup {"save_tags"}]]
    /\ background_tasks' =
         Append(background_tasks, loc[s].tags_data.tags \o loc[s].tags_data.characters)
    /\ UNCHANGED <<files, clock, lastOp, managerVars, req, loc, result, loop, scans,
                   computed>>
    /\ UNCHANGED <<trendVars, batchVars>>

\* return result
Return(s) ==
    /\ pc[s] = "return"
    /\ loop = s
    /\ Finish(s, "done", result[s], loc[s], eff[s])
    /\ UNCHANGED <<storeVars, clock, lastOp, managerVars, faults>>
    /\ UNCHANGED <<trendVars, batchVars>>

\* ------------------------------------------- tags and trends called directly

\* Tag names sorted as strings: "c1" < "g1" < "g2".
TagNames == {"c1", "g1", "g2"}

\* The position of a tag name in the order of strings.
NameRank(n) == CASE n = "c1" -> 1 [] n = "g1" -> 2 [] n = "g2" -> 3

\* date('now', '-30 day'): buckets dated before it are retired.
RetentionDays == 30

\* date('now', '-1 day'): buckets dated from it on weigh WeightRecent.
RecentDays == 1

\* date('now', '-7 day'): buckets dated before it are left out of the ranking.
WeekDays == 7

\* tag_trends.day_count * 3
WeightRecent == 3

RECURSIVE SumCounts(_, _)
\* SUM(day_count) over the buckets keys of the table TR.
SumCounts(TR, keys) ==
    IF keys = {} THEN 0
    ELSE LET k == CHOOSE x \in keys : TRUE IN TR[k] + SumCounts(TR, keys \ {k})

\* The buckets of tag name n in TR.
BucketsOf(TR, n) == {k \in DOMAIN TR : k[2] = n}

\* A bucket write that stores 1 whether or not the bucket exists.
ResetBuckets(TR, day, names) ==
    [k \in DOMAIN TR \cup {<<day, n>> : n \in names} |->
        IF k[1] = day /\ k[2] \in names THEN 1 ELSE TR[k]]

\* A retirement that deletes the stale buckets without folding their counts.
SkipFold(T, TR, day) == T

\* INSERT INTO tag_trends (date, tag_id, day_count) VALUES (today, id, 1)
\* ON CONFLICT(date, tag_id) DO UPDATE SET day_count = day_count + 1,
\* for each of names.
BumpBuckets(TR, day, names) ==
    [k \in DOMAIN TR \cup {<<day, n>> : n \in names} |->
        IF k \in DOMAIN TR
        THEN (IF k[1] = day /\ k[2] \in names THEN TR[k] + 1 ELSE TR[k])
        ELSE 1]

\* WHERE date < date('now', '-30 day')
StaleBuckets(TR, day) == {k \in DOMAIN TR : k[1] < day - RetentionDays}

\* _cleanup_tag_trends on table tags: UPDATE tags SET global_count =
\* COALESCE(global_count, 0) + total WHERE id = tag_id, per tag with stale buckets.
CleanupTags(T, TR, day) ==
    [n \in DOMAIN T |->
        [T[n] EXCEPT !.global_count =
            @ + SumCounts(TR, BucketsOf(TR, n) \cap StaleBuckets(TR, day))]]

\* A retirement that deletes no bucket.
KeepTrends(TR, day) == TR

\* _cleanup_tag_trends on table tag_trends: DELETE ... WHERE date < date('now', '-30 day')
CleanupTrends(TR, day) ==
    [k \in DOMAIN TR \ StaleBuckets(TR, day) |-> TR[k]]

\* unique_tags = [tag for tag in dict.fromkeys(tags_list) if tag]
UniqueTags(tags_list) == Dedupe(tags_list, {})

\* ScannerDB.update_tag_trends, the committed transaction, on table tags.
TrendsTagsTable(T, TR, day, tags_list) ==
    IF UniqueTags(tags_list) = <<>> THEN T
    ELSE LET T1 == InsertTagRows(T, UniqueTags(tags_list), {})
             TR1 == BumpBuckets(TR, day, SeqToSet(UniqueTags(tags_list)))
         IN CleanupTags(T1, TR1, day)

\* ScannerDB.update_tag_trends, the committed transaction, on table tag_trends.
TrendsBuckets(TR, day, tags_list) ==
    IF UniqueTags(tags_list) = <<>> THEN TR
    ELSE CleanupTrends(BumpBuckets(TR, day, SeqToSet(UniqueTags(tags_list))), day)

\* history: the sightings recorded after a committed update_tag_trends.
Sighted(S, tags_list) ==
    [n \in DOMAIN S |-> IF n \in SeqToSet(UniqueTags(tags_list)) THEN S[n] + 1 ELSE S[n]]

\* The tag lists the operations are called with.
GeneralLists == {<<>>, <<"g1">>, <<"g2", "g1">>, <<"g1", "", "g1">>}

CharacterLists == {<<>>, <<"c1">>, <<"g1">>}

SightingLists == {<<>>, <<"g1">>, <<"g1", "c1">>, <<"g2", "", "g2">>}

\* The days that pass between two calls.
DaySteps == {15, 16}

TagOpRecord(op, ok, file_hash, tags_list, character_tags_list) ==
    [op |-> op, ok |-> ok, file_hash |-> file_hash, tags_list |-> tags_list,
     character_tags_list |-> character_tags_list, day |-> today,
     tags |-> tags, file_tags |-> file_tags, tag_trends |-> tag_trends]

\* A tag operation that hits sqlite3.Error: rolled back, logged, returns.
TagError(op) ==
    /\ clock < MaxTagOps
    /\ clock' = clock + 1
    /\ lastTagOp' = TagOpRecord(op, FALSE, "h1", <<>>, <<>>)
    /\ UNCHANGED <<storeVars, lastOp, managerVars, scanVars, batchVars>>
    /\ UNCHANGED <<tag_trends, today, sightings, trending>>

\* ScannerDB.save_tags(file_hash, tags_list, character_tags_list)
save_tags(file_hash, tags_list, character_tags_list) ==
    /\ clock < MaxTagOps
    /\ clock' = clock + 1
    /\ tags' = SaveTagsTable(tags, tags_list, character_tags_list)
    /\ file_tags' = SaveTagsLinks(file_tags, file_hash, tags_list, character_tags_list)
    /\ lastTagOp' = TagOpRecord("save_tags", TRUE, file_hash, tags_list,
                                character_tags_list)
    /\ UNCHANGED <<files, lastOp, managerVars, scanVars, batchVars>>
    /\ UNCHANGED <<tag_trends, today, sightings, trending>>

\* ScannerDB.update_tag_trends(tags_list), with _cleanup_tag_trends in its transaction.
update_tag_trends(tags_list) ==
    /\ clock < MaxTagOps
    /\ clock' = clock + 1
    /\ tags' = TrendsTagsTable(tags, tag_trends, today, tags_list)
    /\ tag_trends' = TrendsBuckets(tag_trends, today, tags_list)
    /\ sightings' = Sighted(sightings, tags_list)
    /\ lastTagOp' = TagOpRecord("update_tag_trends", TRUE, "h1", tags_list, <<>>)
    /\ UNCHANGED <<files, file_tags, lastOp, managerVars, scanVars, batchVars>>
    /\ UNCHANGED <<today, trending>>

\* Days pass.
NextDay(d) ==
    /\ today + d <= MaxDay
    /\ today' = today + d
    /\ UNCHANGED <<storeVars, clock, lastOp, managerVars, scanVars, batchVars>>
    /\ UNCHANGED <<tag_trends, sightings, lastTagOp, trending>>

\* ------------------------------------------------- the weighted tag ranking

\* def get_weighted_tag_trends(self, limit: int = 50)
DefaultLimit == 50

\* WHERE tag_trends.date >= date('now', '-7 day')
InWindow(TR, day) == {k \in DOMAIN TR : k[1] >= day - WeekDays}

\* A recent window that holds the buckets of the current day only.
TodayOnly(TR, day) == {k \in DOMAIN TR : k[1] >= day}

\* WHEN tag_trends.date >= date('now', '-1 day')
InRecent(TR, day) == {k \in DOMAIN TR : k[1] >= day - RecentDays}

\* A score that counts every bucket of the window once.
UnweightedCount(TR, day, n) ==
    SumCounts(TR, BucketsOf(TR, n) \cap InWindow(TR, day))

\* SUM(CASE WHEN date >= date('now','-1 day') THEN day_count * 3
\*          WHEN date >= date('now','-7 day') THEN day_count ELSE 0 END)
\* over the buckets of tag n the WHERE clause keeps.
WeightedCount(TR, day, n) ==
    LET mine == BucketsOf(TR, n) \cap InWindow(TR, day) IN
    WeightRecent * SumCounts(TR, mine \cap InRecent(TR, day))
      + SumCounts(TR, mine \ InRecent(TR, day))

\* GROUP BY tag_id HAVING weighted_count > 0: the tags of the result.
RankedTags(T, TR, day) ==
    {n \in DOMAIN T :
        /\ BucketsOf(TR, n) \cap InWindow(TR, day) # {}
        /\ WeightedCount(TR, day, n) > 0}

\* ORDER BY weighted_count DESC: the orders the rows can come in (rows of
\* equal weighted_count come in an order the query does not fix).
RankOrders(T, TR, day) ==
    LET R == RankedTags(T, TR, day) IN
    {o \in [1..Cardinality(R) -> R] :
        /\ \A i, j \in 1..Cardinality(R) : i # j => o[i] # o[j]
        /\ \A i, j \in 1..Cardinality(R) :
             i < j => WeightedCount(TR, day, o[i]) >= WeightedCount(TR, day, o[j])}

\* LIMIT ?
Limited(o, limit) == IF limit < Len(o) THEN SubSeq(o, 1, limit) ELSE o

\* [{"tag": name, "weighted_count": float(weighted_count)} ...]
TrendRows(TR, day, o) ==
    [i \in 1..Len(o) |-> [tag |-> o[i], weighted_count |-> WeightedCount(TR, day, o[i])]]

\* The list of a call and the limit it was asked with.
Trending(limit, rows) == [limit |-> limit, rows |-> rows]

\* The limits the ranking is asked with.
Limits == {0, 1, DefaultLimit}

\* ScannerDB.get_weighted_tag_trends(limit)
get_weighted_tag_trends(limit) ==
    /\ \E o \in RankOrders(tags, tag_trends, today) :
         trending' = Trending(limit, TrendRows(tag_trends, today, Limited(o, limit)))
    /\ lastTagOp' = TagOpRecord("get_weighted_tag_trends", TRUE, "h1", <<>>, <<>>)
    /\ UNCHANGED <<storeVars, clock, lastOp, managerVars, scanVars, batchVars>>
    /\ UNCHANGED <<tag_trends, today, sightings>>

\* get_weighted_tag_trends hitting sqlite3.Error: logged, returns [].
TrendsQueryError(limit) ==
    /\ trending' = Trending(limit, <<>>)
    /\ lastTagOp' = TagOpRecord("get_weighted_tag_trends", FALSE, "h1", <<>>, <<>>)
    /\ UNCHANGED <<storeVars, clock, lastOp, managerVars, scanVars, batchVars>>
    /\ UNCHANGED <<tag_trends, today, sightings>>

\* The bucket tables the ranking is asked on: per tag at most two buckets,
\* aged 0, 1, 2, 7 or 8 days, holding 2, 5 or 10 sightings.
RankAges == {0, 1, 2, 7, 8}

RankCounts == {2, 5, 10}

RankNames == {"g1", "g2"}

RankingToday == CHOOSE d \in RankAges : \A a \in RankAges : a <= d

\* The buckets one tag can hold: functions from at most two ages to counts.
TagBuckets ==
    UNION {[A -> RankCounts] : A \in {B \in SUBSET RankAges : Cardinality(B) <= 2}}

\* The table tag_trends in which tag n holds the buckets pick[n].
BucketTable(pick) ==
    [k \in {x \in {<<RankingToday - a, n>> : a \in RankAges, n \in RankNames} :
               RankingToday - x[1] \in DOMAIN pick[x[2]]}
       |-> pick[k[2]][RankingToday - k[1]]]

\* ------------------------------------------------ core/legacy_batch.py

\* GIF_STEP = 5
GIF_STEP == 5

\* VIDEO_STEP = 20
VIDEO_STEP == 20

\* MAX_OUT_FRAMES = 60: ffmpeg writes at most that many frames.
MAX_OUT_FRAMES == 60

\* sorted(tag_union)[:200]
MaxTags == 200

\* if max_risk >= 1.0: a risk of 1.0, risks being counted in 1/10000.
Saturated == 10000

\* The frame counts _extract_frames yields for the uploads scanned.
Totals == {0, 1, 16, 40}

\* The content types of the uploads.
Mimes == {"", "image/gif", "video/mp4", "video/gif"}

\* "video" in mime
HasVideo(mime) == mime \in {"video/mp4", "video/gif"}

\* "gif" in mime
HasGif(mime) == mime \in {"image/gif", "video/gif"}

\* The labels the taggers can give a frame, and their sorted order.
Labels == {"cat", "dog"}

LabelRank(l) == CASE l = "cat" -> 1 [] l = "dog" -> 2

\* _run_nsfw: {"error": ...} when the model is not loaded (None), else the
\* score clamped to [0, 1] as hentai, porn and sexy.
NsfwResults == {None} \cup {Some(r) : r \in {0, 1234, 2000, 9996, Saturated}}

\* _run_tagging: {"tags": [{"label": ..., "score": ...}, ...]}
TaggingResults == SUBSET Labels

\* sorted(...) of a set of frame indices.
RECURSIVE SortedIndices(_)
SortedIndices(S) ==
    IF S = {} THEN <<>>
    ELSE LET m == CHOOSE x \in S : \A y \in S : x <= y
         IN <<m>> \o SortedIndices(S \ {m})

\* sorted(...) of a set of labels.
RECURSIVE SortedLabels(_)
SortedLabels(S) ==
    IF S = {} THEN <<>>
    ELSE LET m == CHOOSE x \in S : \A y \in S : LabelRank(x) <= LabelRank(y)
         IN <<m>> \o SortedLabels(S \ {m})

\* A sampling that takes the first frame and every step-th one only.
StrideOnly(total, step) ==
    IF total <= 0 THEN <<>>
    ELSE SortedIndices({j \in 0..(total - 1) : j % step = 0})

\* _sample_indices(total, step)
sample_indices(total, step) ==
    IF total <= 0 THEN <<>>
    ELSE SortedIndices({i \in {0, total - 1} \cup {j \in 0..(total - 1) : j % step = 0} :
                          0 <= i /\ i < total})

\* round(max_risk, 3), on risks counted in 1/10000.
Round3(r) == ((r + 5) \div 10) * 10

\* max(float(nsfw_res.get("hentai", 0)), ... "porn" ..., ... "sexy" ...)
BaseRisk(nsfw_res) == IF nsfw_res = None THEN 0 ELSE CHOOSE r \in nsfw_res : TRUE

\* run_deepdanbooru_from_path(frame_path): _run_deepdanbooru calls
\* model_manager.predict_deepdanbooru_tags_with_scores, which ModelManager
\* does not define, so the call raises AttributeError.
run_deepdanbooru_from_path == [raised |-> TRUE, tags |-> {}]

\* {"risk": round(max_risk, 3), "tags": sorted(tag_union)[:200], "frameCount": total}
BatchResult(max_risk, tag_union, total) ==
    [risk |-> Round3(max_risk),
     tags |-> LET t == SortedLabels(tag_union)
              IN IF Len(t) > MaxTags THEN SubSeq(t, 1, MaxTags) ELSE t,
     frameCount |-> total]

\* A zero-frame answer that reports a risk.
RiskyBatchResult == [risk |-> Saturated, tags |-> <<>>, frameCount |-> 0]

\* return {"risk": 0.0, "tags": [], "frameCount": 0}
EmptyBatchResult == [risk |-> 0, tags |-> <<>>, frameCount |-> 0]

\* scan_batch not called. temp_file: the local holds the file's name;
\* file_on_disk, dir_on_disk: the temporary file and directory exist.
IdleBatch ==
    [pc |-> "idle", mime |-> "", total |-> 0, extracted |-> FALSE,
     temp_file |-> FALSE, file_on_disk |-> FALSE, dir_on_disk |-> FALSE,
     indices |-> <<>>, pos |-> 1, max_risk |-> 0, tag_union |-> {},
     analysed |-> <<>>, result |-> None, raised |-> FALSE]

\* scan_batch(buf, mime) up to temp_file = handle.name: the temporary
\* directory and the file (delete=False, in the default directory) are
\* created; a failing write or flush raises before the name is kept.
BatchWrite(mime, ok) ==
    /\ batch.pc = "idle"
    /\ batch' = [batch EXCEPT !.pc = IF ok THEN "written" ELSE "finally",
                              !.mime = mime, !.dir_on_disk = TRUE,
                              !.file_on_disk = TRUE, !.temp_file = ok,
                              !.raised = ~ok]
    /\ UNCHANGED <<storeVars, clock, lastOp, managerVars, scanVars, trendVars, pipe, directVars>>

\* frames = _extract_frames(temp_file, temp_dir); total = len(frames).
\* subprocess.run(check=True) raises when ffmpeg fails (frames = None).
BatchExtract(frames) ==
    /\ batch.pc = "written"
    /\ \A total \in frames : total <= MAX_OUT_FRAMES
    /\ IF frames = None
       THEN batch' = [batch EXCEPT !.pc = "finally", !.raised = TRUE]
       ELSE batch' = [batch EXCEPT !.pc = "extracted", !.extracted = TRUE,
                                   !.total = CHOOSE total \in frames : TRUE]
    /\ UNCHANGED <<storeVars, clock, lastOp, managerVars, scanVars, trendVars, pipe, directVars>>

\* if total == 0: return ...; step, indices, max_risk, tag_union.
BatchSample ==
    /\ batch.pc = "extracted"
    /\ IF batch.total = 0
       THEN batch' = [batch EXCEPT !.pc = "finally",
                                   !.result = Some(EmptyBatchResult)]
       ELSE LET step == IF HasVideo(batch.mime) /\ ~HasGif(batch.mime)
                        THEN VIDEO_STEP ELSE GIF_STEP
            IN batch' = [batch EXCEPT !.pc = "loop",
                                      !.indices = sample_indices(batch.total, step),
                                      !.pos = 1, !.max_risk = 0, !.tag_union = {}]
    /\ UNCHANGED <<storeVars, clock, lastOp, managerVars, scanVars, trendVars, pipe, directVars>>

\* One round of "for index in indices", or the return after the loop.
BatchFrame(nsfw_res, tag_res) ==
    /\ batch.pc = "loop"
    /\ IF batch.pos > Len(batch.indices)
       THEN batch' = [batch EXCEPT
                !.pc = "finally",
                !.result = Some(BatchResult(batch.max_risk, batch.tag_union, batch.total))]
       ELSE LET ddb_res == run_deepdanbooru_from_path
                seen == Append(batch.analysed,
                               [index |-> batch.indices[batch.pos],
                                risk |-> BaseRisk(nsfw_res), labels |-> tag_res])
                base == BaseRisk(nsfw_res)
                max_risk == IF base > batch.max_risk THEN base ELSE batch.max_risk
                tag_union == batch.tag_union \cup tag_res \cup ddb_res.tags
            IN IF ddb_res.raised
               THEN batch' = [batch EXCEPT !.pc = "finally", !.raised = TRUE,
                                           !.analysed = seen]
               ELSE IF max_risk >= Saturated
               THEN batch' = [batch EXCEPT
                        !.pc = "finally", !.analysed = seen,
                        !.max_risk = max_risk, !.tag_union = tag_union,
                        !.result = Some(BatchResult(max_risk, tag_union, batch.total))]
               ELSE batch' = [batch EXCEPT
                        !.pos = batch.pos + 1, !.analysed = seen,
                        !.max_risk = max_risk, !.tag_union = tag_union]
    /\ UNCHANGED <<storeVars, clock, lastOp, managerVars, scanVars, trendVars, pipe, directVars>>

\* finally: os.remove(temp_file) if the name was kept; leaving the with
\* block removes the temporary directory; the call returns or raises.
BatchFinally ==
    /\ batch.pc = "finally"
    /\ batch' = [batch EXCEPT !.pc = IF batch.raised THEN "raised" ELSE "returned",
                              !.file_on_disk = batch.file_on_disk /\ ~batch.temp_file,
                              !.dir_on_disk = FALSE]
    /\ UNCHANGED <<storeVars, clock, lastOp, managerVars, scanVars, trendVars, pipe, directVars>>

\* scan_batch has returned or raised.
BatchOver == batch.pc \in {"returned", "raised"}

\* _sample_indices not called.
IdleSample == [total |-> 0, step |-> GIF_STEP, indices |-> <<>>, called |-> FALSE]

\* A call _sample_indices(sample.total, sample.step).
SampleIndices ==
    /\ ~sample.called
    /\ sample' = [sample EXCEPT !.called = TRUE,
                                !.indices = sample_indices(sample.total, sample.step)]
    /\ UNCHANGED <<storeVars, clock, lastOp, managerVars, scanVars, trendVars, batch, pipe, mapping, mgr, authVars, http, legacy_stats>>

\* map_modules_to_flags not called.
IdleMapping == [modules |-> <<>>, flags |-> 0, called |-> FALSE]

\* A call map_modules_to_flags(mapping.modules).
MapModules ==
    /\ ~mapping.called
    /\ mapping' = [mapping EXCEPT !.called = TRUE,
                                  !.flags = map_modules_to_flags(mapping.modules)]
    /\ UNCHANGED <<storeVars, clock, lastOp, managerVars, scanVars, trendVars, batch, pipe, sample, mgr, authVars, http, legacy_stats>>

\* ------------------------------------- the ModelManager called directly

\* The flags load_models_for_flags is called with: the engine bits.
MgrFlags ==
    {FLAG_NSFW, FLAG_TAGS, FLAG_FACE + FLAG_VECTOR, FLAG_NSFW + FLAG_VECTOR,
     FLAG_NSFW + FLAG_TAGS + FLAG_FACE + FLAG_VECTOR}

\* The loader outcomes of a direct call: at most one loader does not load.
MgrOutcomes ==
    {o \in LoadOutcomes : Cardinality({n \in ModelNames : o[n] # "ok"}) <= 1}

\* No call made yet, no slot loaded.
IdleMgr ==
    [op |-> "none", name |-> "", flags |-> 0, free_pct |-> None,
     outcome |-> [n \in ModelNames |-> "ok"], before |-> {}, before_used |-> {},
     before_idle |-> [n \in ModelNames |-> 0], evicted |-> <<>>, raised |-> FALSE,
     value |-> None, inflight |-> FALSE, calls |-> 0,
     idle |-> [n \in ModelNames |-> 0], tick |-> 0]

\* A scheduling in which a call may start while a prediction is in flight.
AlwaysFree == TRUE

\* The handlers call the manager from async functions without awaiting in
\* between, on one event loop: a call that has started runs to its end
\* before another call starts.
LoopFree == ~mgr.inflight

\* The slots _unload_models removes, in the order it is given them.
Evicted(M, flags, free_pct) ==
    IF LowVram(free_pct)
    THEN Filter(unload_priority_targets(M, flags), ModelNames \ {"nsfw"})
    ELSE <<>>

\* ModelManager.load_models_for_flags(flags), called directly.
MgrLoad(flags, free_pct, outcome) ==
    /\ LoopFree
    /\ mgr.calls < MaxMgrCalls
    /\ {n \in ModelNames : outcome[n] # "ok"} \subseteq Attempted(models, flags, free_pct)
    /\ LET r == load_models_for_flags(models, flags, free_pct, outcome) IN
       /\ models' = r.models
       /\ model_last_used' = LastUsedAfterLoad(model_last_used, models, r.models)
       /\ mgr' = [mgr EXCEPT
                    !.op = "load", !.name = "", !.flags = flags, !.free_pct = free_pct,
                    !.outcome = outcome, !.before = models,
                    !.before_used = model_last_used, !.before_idle = mgr.idle,
                    !.evicted = Evicted(models, flags, free_pct),
                    !.raised = r.raised, !.value = None, !.calls = @ + 1,
                    !.idle = [n \in ModelNames |->
                                IF n \in r.models /\ n \in models THEN mgr.idle[n] ELSE 0]]
    /\ UNCHANGED <<storeVars, clock, lastOp, scanVars, trendVars, batch, pipe, sample, mapping, authVars, http, legacy_stats>>

\* The flags can_run_flags is called with: any combination of the five bits.
CanRunFlags == 0 .. (2 * FLAG_VECTOR - 1)

\* ModelManager.can_run_flags(flags), called directly: it reads the headroom
\* and returns; no slot is loaded, unloaded or touched.
MgrCanRun(flags, free_pct) ==
    /\ LoopFree
    /\ mgr' = [mgr EXCEPT
                 !.op = "can_run", !.name = "", !.flags = flags, !.free_pct = free_pct,
                 !.outcome = IdleMgr.outcome,
                 !.before = models, !.before_used = model_last_used,
                 !.before_idle = mgr.idle, !.evicted = <<>>, !.raised = FALSE,
                 !.value = Some(can_run_flags(flags, free_pct))]
    /\ UNCHANGED <<storeVars, clock, lastOp, managerVars, scanVars, trendVars>>
    /\ UNCHANGED <<batch, pipe, sample, mapping, authVars, http, legacy_stats>>

\* The predict operation of slot name.
Predict(name, M, h, outcome) ==
    CASE name = "nsfw" -> predict_nsfw(M, h, outcome)
      [] name = "tags" -> predict_tags(M, h, outcome)
      [] name = "face" -> predict_face_bboxes(M, h, outcome)
      [] name = "clip" -> predict_clip_embedding(M, h, outcome)

\* predict_nsfw, predict_tags, predict_face_bboxes, predict_clip_embedding,
\* up to the check 'if name not in self.models': when the slot is not loaded
\* the call returns its default, else it goes on to use the model.
MgrPredictCheck(name) ==
    /\ LoopFree
    /\ LET r == Predict(name, models, "h1", "ok")
           loaded == name \in models
       IN /\ model_last_used' =
               IF loaded THEN model_last_used ELSE touch_model(model_last_used, name, r.ok)
          /\ mgr' = [mgr EXCEPT
                       !.op = "predict", !.name = name, !.flags = 0, !.free_pct = None,
                       !.outcome = IdleMgr.outcome,
                       !.before = models, !.before_used = model_last_used,
                       !.before_idle = mgr.idle, !.evicted = <<>>,
                       !.raised = IF loaded THEN FALSE ELSE r.raised,
                       !.value = IF loaded THEN None ELSE Some(r.value),
                       !.inflight = loaded]
    /\ UNCHANGED <<storeVars, clock, lastOp, models, scanVars, trendVars>>
    /\ UNCHANGED <<batch, pipe, sample, mapping, authVars, http, legacy_stats>>

\* The rest of a prediction: self.models[name] is used and the slot touched.
\* A failing nsfw or tags prediction is caught and gives the default; a
\* failing face or clip prediction raises, as does a slot that is gone.
MgrPredictUse(outcome) ==
    /\ mgr.inflight
    /\ LET name == mgr.name
           r == Predict(name, models, "h1", outcome)
           gone == name \notin models
       IN /\ model_last_used' = touch_model(model_last_used, name, r.ok)
          /\ mgr' = [mgr EXCEPT
                       !.inflight = FALSE,
                       !.raised = IF gone THEN name \notin {"nsfw", "tags"} ELSE r.raised,
                       !.value = IF gone /\ name \notin {"nsfw", "tags"}
                                 THEN None ELSE Some(r.value),
                       !.idle = IF r.ok THEN [@ EXCEPT ![name] = 0] ELSE @]
    /\ UNCHANGED <<storeVars, clock, lastOp, models, scanVars, trendVars>>
    /\ UNCHANGED <<batch, pipe, sample, mapping, authVars, http, legacy_stats>>

\* Time passes, without end: every slot holding a timestamp has been idle one
\* tick longer (counted up to one past the idle duration), and the clock's
\* low bit turns over.
MgrTick ==
    /\ LoopFree
    /\ mgr' = [mgr EXCEPT
                 !.idle = [n \in ModelNames |->
                             IF n \in model_last_used /\ mgr.idle[n] <= IdleLimit
                             THEN mgr.idle[n] + 1 ELSE mgr.idle[n]],
                 !.tick = 1 - @]
    /\ UNCHANGED <<storeVars, clock, lastOp, managerVars, scanVars, trendVars>>
    /\ UNCHANGED <<batch, pipe, sample, mapping, authVars, http, legacy_stats>>

\* ------------------------------------- core/legacy_pipeline.py process_image_bytes

\* The outcomes of a module of the pipeline: it returns or it raises.
ModuleOutcomes == {"ok", "raise"}

\* The labels _run_tagging returns for an image.
PipeLabelLists == {<<>>, <<"g1">>, <<"g2", "g1">>}

\* The keys process_image_bytes stores its modules' dicts under.
ModuleKeys ==
    {"modules.nsfw_scanner", "modules.tagging", "modules.deepdanbooru_tags",
     "modules.statistics", "modules.image_storage"}

\* {"error": str(exc)}
ErrorMarker == [error |-> "exc"]

\* What a module returns when it does not raise.
ModuleOutput(key, labels) ==
    CASE key = "modules.nsfw_scanner" ->
           [drawings |-> 0, hentai |-> 700, neutral |-> 300, porn |-> 700, sexy |-> 700]
      [] key = "modules.tagging" -> [tags |-> labels]
      [] key = "modules.deepdanbooru_tags" -> [tags |-> <<>>]
      [] key = "modules.statistics" -> [recorded |-> Len(labels)]
      [] key = "modules.image_storage" ->
           [path |-> "scanned/out.jpg", metadata |-> [width |-> 64, height |-> 64]]

\* Tables legacy_stats (one row, count 0) and legacy_tag_counts of a new database.
NoLegacyStats == [count |-> 0, tag_counts |-> EmptyDict]

\* ScannerDB.record_legacy_tags, the committed transaction: the row's count
\* and the count of every non-empty tag of the list go up by one.
RECURSIVE record_legacy_tags(_, _)
record_legacy_tags(L, tags_list) ==
    IF tags_list = <<>> THEN [L EXCEPT !.count = @ + 1]
    ELSE LET rest == record_legacy_tags(L, Tail(tags_list))
             tag == Head(tags_list)
         IN IF tag = "" THEN rest
            ELSE [rest EXCEPT !.tag_counts =
                    DictPut(@, tag, DictGet(@, tag, 0) + 1)]

\* ScannerDB.get_legacy_stats: the count and the tags with the highest
\* counts (top_n is 5 and there are fewer tags: all of them; their order is
\* by count), or the zero answer on sqlite3.Error.
get_legacy_stats(L, dbok) ==
    IF dbok THEN [count |-> L.count, top_tags |-> DOMAIN L.tag_counts]
    ELSE [count |-> 0, top_tags |-> {}]

\* process_image_bytes not called. temp_path: the local holds the name.
IdlePipe ==
    [pc |-> "idle", temp_path |-> FALSE, file_on_disk |-> FALSE,
     errors |-> {}, recorded |-> 0, raised |-> FALSE, result |-> EmptyDict]

\* process_image_bytes up to temp_path = temp_file.name.
PipeWrite(ok) ==
    /\ pipe.pc = "idle"
    /\ pipe' = [pipe EXCEPT !.pc = IF ok THEN "written" ELSE "finally",
                            !.file_on_disk = TRUE, !.temp_path = ok, !.raised = ~ok]
    /\ UNCHANGED <<storeVars, clock, lastOp, managerVars, scanVars, trendVars, batch, directVars>>

\* The five modules, each in its own try/except Exception. The
\* deepdanbooru module raises (see run_deepdanbooru_from_path) and leaves an
\* error entry without tags; statistics records the tagging labels with
\* update_tag_trends, which logs a sqlite3.Error itself.
PipeModules(nsfw, tagging, labels, dbok, statsok, storage) ==
    /\ pipe.pc = "written"
    /\ LET all_labels == IF tagging = "ok" THEN labels ELSE <<>>
           errs == {m \in {"modules.nsfw_scanner"} : nsfw = "raise"}
                     \cup {m \in {"modules.tagging"} : tagging = "raise"}
                     \cup {m \in {"modules.deepdanbooru_tags"} :
                             run_deepdanbooru_from_path.raised}
                     \cup {m \in {"modules.image_storage"} : storage = "raise"}
           commits == dbok /\ UniqueTags(all_labels) # <<>>
       IN /\ pipe' = [pipe EXCEPT
                         !.pc = "finally", !.errors = errs,
                         !.recorded = Len(all_labels),
                         !.result = [k \in ModuleKeys |->
                                       IF k \in errs THEN ErrorMarker
                                       ELSE ModuleOutput(k, all_labels)]]
          /\ legacy_stats' = IF statsok THEN record_legacy_tags(legacy_stats, all_labels)
                             ELSE legacy_stats
          /\ tags' = IF commits
                     THEN TrendsTagsTable(tags, tag_trends, today, all_labels)
                     ELSE tags
          /\ tag_trends' = IF commits
                           THEN TrendsBuckets(tag_trends, today, all_labels)
                           ELSE tag_trends
          /\ sightings' = IF commits THEN Sighted(sightings, all_labels) ELSE sightings
          /\ lastTagOp' = TagOpRecord("update_tag_trends", dbok, "h1", all_labels, <<>>)
    /\ UNCHANGED <<files, file_tags, clock, lastOp, managerVars, scanVars, batch>>
    /\ UNCHANGED <<sample, mapping, mgr, authVars, http>>
    /\ UNCHANGED <<today, trending>>

\* finally: os.remove(temp_path) if the name was kept; return result.
PipeFinally ==
    /\ pipe.pc = "finally"
    /\ pipe' = [pipe EXCEPT !.pc = IF pipe.raised THEN "raised" ELSE "returned",
                            !.file_on_disk = pipe.file_on_disk /\ ~pipe.temp_path]
    /\ UNCHANGED <<storeVars, clock, lastOp, managerVars, scanVars, trendVars, batch, directVars>>

\* The pipeline call has returned or raised.
PipeOver == pipe.pc \in {"returned", "raised"}

\* ------------------------------------------------------- routers/auth.py

\* EXPIRY_SECONDS = 3600 * 24 * 30, in clock ticks of 30 days.
EXPIRY_SECONDS == 1

AuthSlots == {1, 2}

\* The addresses GET /token?email= is called with; "" is an empty address.
Emails == {"", "e1", "e2"}

\* The credentials GET /token and POST /token are called with; "" is a
\* missing one.
Credentials == {[mail |-> "m1", webseite |-> "w1"], [mail |-> "m1", webseite |-> ""]}

\* The strings verify_token is called with: the token built from the
\* credentials, generated tokens, an address and a string never stored.
VerifyInputs == {"k1", "t1", "t2", "e1", "zz"}

\* _build_token: sha256 of "mail:webseite:SERVER_SECRET", as a name.
build_token(mail, webseite) ==
    IF mail = "m1" /\ webseite = "w1" THEN "k1" ELSE "k0"

\* secrets.token_hex(16): the values it gives, in the order it gives them.
HexPool == <<"t1", "t2", "t3", "t4">>

\* The entry GET /token and POST /token store under the token.
NewEntry(mail, webseite, now) ==
    [mail |-> mail, webseite |-> webseite, status |-> "alive", timestamp |-> now]

\* The entry legacy_get_token stores under the address.
LegacyEntry(token, now) == [token |-> token, ts |-> now]

is_new_token_entry(value) ==
    \E k \in {"mail", "webseite", "status", "timestamp"} : k \in DOMAIN value

is_legacy_entry(value) == "token" \in DOMAIN value \/ "ts" \in DOMAIN value

\* The entry is one _cleanup_legacy_tokens pops at time now.
Expired(value, now) ==
    /\ is_legacy_entry(value)
    /\ "ts" \in DOMAIN value
    /\ now - value.ts > EXPIRY_SECONDS

\* _cleanup_legacy_tokens: the dict without its expired legacy entries
\* (changed is whether one was popped).
cleanup_legacy_tokens(tokens, now) ==
    [k \in {x \in DOMAIN tokens : ~Expired(tokens[x], now)} |-> tokens[k]]

\* verify_token's decision on the cleaned dict: the string is a key of the
\* dict, or the token of an entry that is not a new-style entry.
Accepts(tokens, token) ==
    \/ token \in DOMAIN tokens
    \/ \E email \in DOMAIN tokens :
         /\ ~is_new_token_entry(tokens[email])
         /\ "token" \in DOMAIN tokens[email]
         /\ tokens[email].token = token

\* No call in the slot. tokens, changed and token are the locals of the call;
\* ok is what verify_token returned.
IdleCall ==
    [op |-> "none", pc |-> "idle", key |-> "", mail |-> "", webseite |-> "",
     renew |-> FALSE,
     tokens |-> EmptyDict, changed |-> FALSE, token |-> "", ok |-> FALSE]

\* history. calls: the requests received; generated: the values drawn from
\* token_hex; ever: the tokens returned by GET/POST /token; live: per key,
\* the entry of the last token returned for it.
NoTokenHist == [calls |-> 0, generated |-> 0, ever |-> {}, live |-> EmptyDict]

\* history: the call returned token to its client, stored as entry under key.
Handed(h, key, token, entry) ==
    [h EXCEPT !.ever = @ \cup {token}, !.live = DictPut(@, key, entry)]

AuthOver == {"idle", "done", "raised", "http400"}

\* GET /token without email, POST /token: 400 when a credential is missing,
\* else the token is built and the file is loaded.
GetToken(a, cred) ==
    /\ token_call[a].pc \in AuthOver
    /\ token_hist.calls < MaxAuthCalls
    /\ LET missing == cred.mail = "" \/ cred.webseite = "" IN
       token_call' = [token_call EXCEPT ![a] =
                        [IdleCall EXCEPT
                           !.op = "get_token",
                           !.pc = IF missing THEN "http400" ELSE "load",
                           !.mail = cred.mail, !.webseite = cred.webseite,
                           !.key = build_token(cred.mail, cred.webseite)]]
    /\ token_hist' = [token_hist EXCEPT !.calls = @ + 1]
    /\ UNCHANGED <<storeVars, clock, lastOp, managerVars, scanVars, trendVars>>
    /\ UNCHANGED <<batch, pipe, sample, mapping, mgr, http, legacy_stats>>
    /\ UNCHANGED <<tokens_json, tokens_tmp, token_now, token_table>>

\* GET /token?email=...[&renew]: 400 when the address is empty.
LegacyToken(a, email, renew) ==
    /\ token_call[a].pc \in AuthOver
    /\ token_hist.calls < MaxAuthCalls
    /\ token_call' = [token_call EXCEPT ![a] =
                        [IdleCall EXCEPT
                           !.op = "legacy_get_token",
                           !.pc = IF email = "" THEN "http400" ELSE "load",
                           !.key = email, !.renew = renew]]
    /\ token_hist' = [token_hist EXCEPT !.calls = @ + 1]
    /\ UNCHANGED <<storeVars, clock, lastOp, managerVars, scanVars, trendVars>>
    /\ UNCHANGED <<batch, pipe, sample, mapping, mgr, http, legacy_stats>>
    /\ UNCHANGED <<tokens_json, tokens_tmp, token_now, token_table>>

\* A handler awaits verify_token(token).
VerifyCall(a, token) ==
    /\ token_call[a].pc \in AuthOver
    /\ token_hist.calls < MaxAuthCalls
    /\ token_call' = [token_call EXCEPT ![a] =
                        [IdleCall EXCEPT !.op = "verify_token", !.pc = "load",
                                         !.key = token]]
    /\ token_hist' = [token_hist EXCEPT !.calls = @ + 1]
    /\ UNCHANGED <<storeVars, clock, lastOp, managerVars, scanVars, trendVars>>
    /\ UNCHANGED <<batch, pipe, sample, mapping, mgr, http, legacy_stats>>
    /\ UNCHANGED <<tokens_json, tokens_tmp, token_now, token_table>>

\* tokens = await _load_tokens() and the statements up to the next await:
\* GET/POST /token puts its entry; legacy_get_token cleans, keeps the stored
\* token of the address or generates one; verify_token cleans, decides and
\* records the use. A call with nothing to save returns here.
TokenLoad(a) ==
    /\ token_call[a].pc = "load"
    /\ LET c == token_call[a]
           cleaned == cleanup_legacy_tokens(tokens_json, token_now)
           changed == cleaned # tokens_json
           kept == /\ ~c.renew
                   /\ c.key \in DOMAIN cleaned
                   /\ "token" \in DOMAIN cleaned[c.key]
           fresh == HexPool[token_hist.generated + 1]
           entry == LegacyEntry(fresh, token_now)
           ok == Accepts(cleaned, c.key)
       IN CASE c.op = "get_token" ->
                 /\ token_call' = [token_call EXCEPT ![a] =
                       [c EXCEPT !.pc = "write", !.token = c.key, !.changed = TRUE,
                                 !.tokens = DictPut(tokens_json, c.key,
                                                    NewEntry(c.mail, c.webseite, token_now))]]
                 /\ UNCHANGED <<token_hist, token_table>>
            [] c.op = "legacy_get_token" /\ kept ->
                 /\ token_call' = [token_call EXCEPT ![a] =
                       [c EXCEPT !.pc = IF changed THEN "write" ELSE "done",
                                 !.token = cleaned[c.key].token,
                                 !.changed = changed, !.tokens = cleaned]]
                 /\ token_hist' = IF changed THEN token_hist
                                  ELSE Handed(token_hist, c.key, cleaned[c.key].token,
                                              cleaned[c.key])
                 /\ UNCHANGED token_table
            [] c.op = "legacy_get_token" /\ ~kept ->
                 /\ token_hist.generated < Len(HexPool)
                 /\ token_call' = [token_call EXCEPT ![a] =
                       [c EXCEPT !.pc = "write", !.token = fresh, !.changed = TRUE,
                                 !.tokens = DictPut(cleaned, c.key, entry)]]
                 /\ token_hist' = [token_hist EXCEPT !.generated = @ + 1]
                 /\ UNCHANGED token_table
            [] c.op = "verify_token" ->
                 /\ token_call' = [token_call EXCEPT ![a] =
                       [c EXCEPT !.pc = IF changed THEN "write" ELSE "done",
                                 !.ok = ok, !.changed = changed, !.tokens = cleaned]]
                 /\ token_table' = IF ok THEN token_table \cup {c.key} ELSE token_table
                 /\ UNCHANGED token_hist
    /\ UNCHANGED <<storeVars, clock, lastOp, managerVars, scanVars, trendVars>>
    /\ UNCHANGED <<batch, pipe, sample, mapping, mgr, http, legacy_stats>>
    /\ UNCHANGED <<tokens_json, tokens_tmp, token_now>>

\* _save_tokens, the write: the dict of the call is written to tokens.json.tmp.
TokenWrite(a) ==
    /\ token_call[a].pc = "write"
    /\ tokens_tmp' = Some(token_call[a].tokens)
    /\ token_call' = [token_call EXCEPT ![a].pc = "replace"]
    /\ UNCHANGED <<storeVars, clock, lastOp, managerVars, scanVars, trendVars>>
    /\ UNCHANGED <<batch, pipe, sample, mapping, mgr, http, legacy_stats>>
    /\ UNCHANGED <<tokens_json, token_now, token_table, token_hist>>

\* _save_tokens, os.replace(tmp_path, TOKENS_PATH), and the return of the
\* call: FileNotFoundError when another call has moved the file away.
TokenReplace(a) ==
    /\ token_call[a].pc = "replace"
    /\ LET c == token_call[a] IN
       IF tokens_tmp = None
       THEN /\ token_call' = [token_call EXCEPT ![a].pc = "raised"]
            /\ UNCHANGED <<tokens_json, tokens_tmp, token_table, token_hist>>
       ELSE /\ tokens_json' = CHOOSE d \in tokens_tmp : TRUE
            /\ tokens_tmp' = None
            /\ token_call' = [token_call EXCEPT ![a].pc = "done"]
            /\ token_table' = IF c.op = "get_token" THEN token_table \cup {c.token}
                              ELSE token_table
            /\ token_hist' = IF c.op = "verify_token" THEN token_hist
                             ELSE Handed(token_hist, c.key, c.token, c.tokens[c.key])
    /\ UNCHANGED <<storeVars, clock, lastOp, managerVars, scanVars, trendVars>>
    /\ UNCHANGED <<batch, pipe, sample, mapping, mgr, http, legacy_stats>>
    /\ UNCHANGED token_now

\* time.time() advances by one tick.
TokenTick ==
    /\ token_now < MaxNow
    /\ token_now' = token_now + 1
    /\ UNCHANGED <<storeVars, clock, lastOp, managerVars, scanVars, trendVars>>
    /\ UNCHANGED <<batch, pipe, sample, mapping, mgr, http, legacy_stats>>
    /\ UNCHANGED <<tokens_json, tokens_tmp, token_call, token_table, token_hist>>

\* --------------------------------------------- routers/legacy_http_api.py

\* The Authorization headers and request tokens sent: none, the token built
\* from the credentials, a generated token, an address, a string never stored.
HttpTokens == {"", "k1", "t1", "e1", "zz"}

\* The upload of the form: no such field, an image or animation, a payload
\* over the size limit, bytes that PIL does not verify.
Uploads == {"missing", "ok", "large", "invalid"}

\* The requests POST /scan_image is driven with behind the router.
HttpScanPaths == {"pA", "pMissing"}

\* The token files the server is started on: none, one holding the token
\* built from the credentials, one holding a legacy token issued at tick 0.
TokenFiles ==
    { EmptyDict,
      DictPut(EmptyDict, "k1", NewEntry("m1", "w1", 0)),
      DictPut(EmptyDict, "e1", LegacyEntry("t1", 0)) }

\* No request received. verified: what verify_token returned, None when it
\* was not called; status and content: the response.
IdleHttp ==
    [route |-> "none", pc |-> "idle", multipart |-> FALSE, token |-> "",
     upload |-> "missing", verified |-> None, status |-> 0, content |-> EmptyDict,
     requests |-> 0]

\* JSONResponse(status_code=status, content={"error": error})
ErrorContent(error) == [error |-> error]

\* A guard that rejects a missing token only.
ForbiddenIfMissing(token, valid) == token = ""

\* if not token or not await verify_token(token): 403
Forbidden(token, valid) == token = "" \/ ~valid

\* The handler returns the response.
Respond(status, content) ==
    [http EXCEPT !.pc = "responded", !.status = status, !.content = content]

\* The body of the route's handler is running.
HttpRunning(route) == http.route = route /\ http.pc = "body"

\* A request arrives at /check, /batch, /stats or /scan_image; the calls of
\* the request before it are over.
HttpRequest(route, multipart, token, upload) ==
    /\ http.pc \in {"idle", "responded"}
    /\ http.requests < MaxRequests
    /\ http' = [IdleHttp EXCEPT
                  !.route = route, !.multipart = multipart, !.token = token,
                  !.upload = upload,
                  !.pc = IF route \in {"/check", "/batch"} THEN "content_type"
                         ELSE "token",
                  !.requests = http.requests + 1]
    /\ pipe' = IdlePipe
    /\ batch' = IdleBatch
    /\ UNCHANGED <<storeVars, clock, lastOp, managerVars, scanVars, trendVars>>
    /\ UNCHANGED <<sample, mapping, mgr, authVars, legacy_stats>>

\* /check, /batch: if "multipart/form-data" not in content_type: 403
HttpContentType ==
    /\ http.pc = "content_type"
    /\ http' = IF http.multipart THEN [http EXCEPT !.pc = "token"]
               ELSE Respond(403, ErrorContent("invalid content-type"))
    /\ UNCHANGED <<storeVars, clock, lastOp, managerVars, scanVars, trendVars>>
    /\ UNCHANGED <<batch, pipe, sample, mapping, mgr, authVars, legacy_stats>>

\* The token check of the four handlers. /stats, /check and /batch do not
\* call verify_token for an empty token and answer 403; /scan_image calls it
\* with the token of the body and raises HTTPException(401). verify_token
\* runs here without another request in between: it loads and cleans
\* tokens.json, decides, records the use and saves what the cleaning changed.
HttpToken ==
    /\ http.pc = "token"
    /\ LET scan == http.route = "/scan_image"
           called == scan \/ http.token # ""
           cleaned == cleanup_legacy_tokens(tokens_json, token_now)
           valid == called /\ Accepts(cleaned, http.token)
           rejected == IF scan THEN ~valid ELSE Forbidden(http.token, valid)
       IN /\ http' = IF rejected
                     THEN [Respond(IF scan THEN 401 ELSE 403,
                                   IF scan THEN [detail |-> "Invalid token"]
                                   ELSE ErrorContent("forbidden"))
                             EXCEPT !.verified = IF called THEN Some(valid) ELSE None]
                     ELSE [http EXCEPT
                             !.verified = IF called THEN Some(valid) ELSE None,
                             !.pc = IF http.route \in {"/check", "/batch"} THEN "form"
                                    ELSE "body"]
          /\ tokens_json' = IF called THEN cleaned ELSE tokens_json
          /\ token_table' = IF valid THEN token_table \cup {http.token} ELSE token_table
    /\ UNCHANGED <<storeVars, clock, lastOp, managerVars, scanVars, trendVars>>
    /\ UNCHANGED <<batch, pipe, sample, mapping, mgr, legacy_stats>>
    /\ UNCHANGED <<tokens_tmp, token_call, token_now, token_hist>>

\* /check, /batch: the upload is read from the form: 400 when it is missing,
\* 413 when it is over the size limit, and for /check 400 when PIL does not
\* verify it.
HttpForm ==
    /\ http.pc = "form"
    /\ LET check == http.route = "/check" IN
       http' = CASE http.upload = "missing" ->
                      Respond(400, ErrorContent(IF check THEN "image missing"
                                                ELSE "file missing"))
                 [] http.upload = "large" ->
                      Respond(413, ErrorContent("payload too large"))
                 [] http.upload = "invalid" /\ check ->
                      Respond(400, ErrorContent("invalid image"))
                 [] OTHER -> [http EXCEPT !.pc = "body"]
    /\ UNCHANGED <<storeVars, clock, lastOp, managerVars, scanVars, trendVars>>
    /\ UNCHANGED <<batch, pipe, sample, mapping, mgr, authVars, legacy_stats>>

\* /stats: stats = db.get_legacy_stats(); 200
HttpStats(dbok) ==
    /\ HttpRunning("/stats")
    /\ http' = Respond(200, get_legacy_stats(legacy_stats, dbok))
    /\ UNCHANGED <<storeVars, clock, lastOp, managerVars, scanVars, trendVars>>
    /\ UNCHANGED <<batch, pipe, sample, mapping, mgr, authVars, legacy_stats>>

\* /check: result = await process_image_bytes(...) has returned: 200 with the
\* result dict; an exception leaving it leaves the handler: 500.
HttpCheckDone ==
    /\ HttpRunning("/check")
    /\ PipeOver
    /\ http' = IF pipe.raised THEN Respond(500, ErrorContent("Internal Server Error"))
               ELSE Respond(200, pipe.result)
    /\ UNCHANGED <<storeVars, clock, lastOp, managerVars, scanVars, trendVars>>
    /\ UNCHANGED <<batch, pipe, sample, mapping, mgr, authVars, legacy_stats>>

\* /batch: scan_batch has returned: 200 with its result; except Exception: 500.
HttpBatchDone ==
    /\ HttpRunning("/batch")
    /\ BatchOver
    /\ http' = IF batch.raised THEN Respond(500, ErrorContent("exc"))
               ELSE Respond(200, CHOOSE r \in batch.result : TRUE)
    /\ UNCHANGED <<storeVars, clock, lastOp, managerVars, scanVars, trendVars>>
    /\ UNCHANGED <<batch, pipe, sample, mapping, mgr, authVars, legacy_stats>>

\* /scan_image: the body after the token check starts, in request slot 1.
HttpScanBody(file_path, modules) ==
    /\ HttpRunning("/scan_image")
    /\ pc[1] \in Terminal \cup {"idle"}
    /\ scans < MaxScans
    /\ scans' = scans + 1
    /\ http' = [http EXCEPT !.pc = "scan"]
    /\ pc' = [pc EXCEPT ![1] = "ready"]
    /\ req' = [req EXCEPT ![1] = [file_path |-> file_path, modules |-> modules]]
    /\ loc' = [loc EXCEPT ![1] = InitLoc]
    /\ result' = [result EXCEPT ![1] = NoResult]
    /\ eff' = [eff EXCEPT ![1] =
                 [InitEff EXCEPT
                    !.fresh = PathKind(file_path) = "file"
                              /\ ContentOf(file_path) \notin DOMAIN files]]
    /\ UNCHANGED <<storeVars, clock, lastOp, managerVars, loop, faults, background_tasks,
                   computed, trendVars>>
    /\ UNCHANGED <<batch, pipe, sample, mapping, mgr, authVars, legacy_stats>>

\* /scan_image: the body has returned its dict (200) or raised (500).
HttpScanDone ==
    /\ http.route = "/scan_image" /\ http.pc = "scan"
    /\ pc[1] \in {"done", "raised"}
    /\ http' = IF pc[1] = "raised" THEN Respond(500, ErrorContent("Internal Server Error"))
               ELSE Respond(200, result[1])
    /\ UNCHANGED <<storeVars, clock, lastOp, managerVars, scanVars, trendVars>>
    /\ UNCHANGED <<batch, pipe, sample, mapping, mgr, authVars, legacy_stats>>

\* ------------------------------------------------------------ specifications

EmptyTable == [x \in {} |-> 0]

\* No tag operation was called yet.
NoTagOp ==
    [op |-> "none", ok |-> TRUE, file_hash |-> "h1", tags_list |-> <<>>,
     character_tags_list |-> <<>>, day |-> 0, tags |-> EmptyTable,
     file_tags |-> [h \in Hashes |-> <<>>], tag_trends |-> EmptyTable]

\* The trend ledger of a new database, on day 0.
InitTrends ==
    /\ tags = EmptyTable
    /\ tag_trends = EmptyTable
    /\ today = 0
    /\ sightings = [n \in TagNames |-> 0]
    /\ lastTagOp = NoTagOp
    /\ trending = Trending(0, <<>>)

\* No token file yet, no token request made.
InitTokens ==
    /\ tokens_json = EmptyDict
    /\ tokens_tmp = None
    /\ token_call = [a \in AuthSlots |-> IdleCall]
    /\ token_now = 0
    /\ token_table = {}
    /\ token_hist = NoTokenHist

\* No scan_batch call was made yet, nor any other call or request.
InitCalls ==
    /\ batch = IdleBatch /\ pipe = IdlePipe
    /\ sample = IdleSample /\ mapping = IdleMapping /\ mgr = IdleMgr
    /\ http = IdleHttp
    /\ legacy_stats = NoLegacyStats

InitBatch == InitCalls /\ InitTokens

\* The result store, the manager and the request slots after construction.
InitScan ==
    /\ files = EmptyTable
    /\ file_tags = [h \in Hashes |-> <<>>]
    /\ clock = 0
    /\ lastOp = OpRecord("none", TRUE, "h1", "pA", NoUpdate, EmptyTable)
    /\ models = {}
    /\ model_last_used = {}
    /\ pc = [s \in Slots |-> "idle"]
    /\ req = [s \in Slots |-> [file_path |-> "", modules |-> <<>>]]
    /\ loc = [s \in Slots |-> InitLoc]
    /\ result = [s \in Slots |-> NoResult]
    /\ eff = [s \in Slots |-> InitEff]
    /\ loop = 0
    /\ scans = 0
    /\ faults = 0
    /\ background_tasks = <<>>
    /\ computed = [h \in Hashes |-> NoComputed]

Init == InitScan /\ InitTrends /\ InitBatch

\* A database whose trend ledger holds the buckets of a bucket table.
InitRanking ==
    /\ InitScan
    /\ InitBatch
    /\ today = RankingToday
    /\ tags = [n \in RankNames |-> [global_count |-> 0, is_character |-> FALSE]]
    /\ \E pick \in [RankNames -> TagBuckets] :
         /\ tag_trends = BucketTable(pick)
         /\ sightings =
              [n \in TagNames |->
                 SumCounts(BucketTable(pick), BucketsOf(BucketTable(pick), n))]
    /\ lastTagOp = NoTagOp
    /\ trending = Trending(0, <<>>)

\* The steps of the scan_image call in slot s.
Scan(s) ==
    \/ VerifyToken(s)
    \/ Resolve(s)
    \/ Hash(s)
    \/ GetRecord(s)
    \/ Validate(s)
    \/ Admit(s)
    \/ Load(s)
    \/ Basic(s)
    \/ Nsfw(s)
    \/ Tags(s)
    \/ Face(s)
    \/ Vector(s)
    \/ BuildResult(s)
    \/ Persist(s)
    \/ SaveTags(s)
    \/ Return(s)

\* The scan orchestrator serving one request after the other.
Next ==
    \/ \E file_path \in ScanPaths, modules \in ScanModules : Start(1, file_path, modules)
    \/ Scan(1)

Spec == Init /\ [][Next]_vars

\* Two requests for the same file in flight together.
NextPair ==
    \/ \E s \in Slots, modules \in ScanModules : Start(s, "pA", modules)
    \/ \E s \in Slots : Scan(s)

SpecPair == Init /\ [][NextPair]_vars

\* The result store driven directly by its write operations.
NextFiles ==
    \/ \E h \in Hashes, p \in StorePaths, u \in StoreUpdates : upsert_scan_result(h, p, u)
    \/ \E h \in Hashes, p \in StorePaths, u \in StoreUpdates : save_scan_result(h, p, u)
    \/ \E h \in Hashes, fl \in StoreFlagInputs : update_file_flags(h, fl)
    \/ \E op \in {"upsert_scan_result", "save_scan_result", "update_file_flags"} :
         StoreError(op)

SpecFiles == Init /\ [][NextFiles]_vars

\* The tag associations and the trend ledger driven directly, days passing.
NextTags ==
    \/ \E h \in Hashes, G \in GeneralLists, C \in CharacterLists : save_tags(h, G, C)
    \/ \E L \in SightingLists : update_tag_trends(L)
    \/ \E op \in {"save_tags", "update_tag_trends"} : TagError(op)
    \/ \E d \in DaySteps : NextDay(d)

SpecTags == Init /\ [][NextTags]_vars

\* The weighted ranking asked on a given trend ledger.
NextRanking ==
    \/ \E limit \in Limits : get_weighted_tag_trends(limit)
    \/ \E limit \in Limits : TrendsQueryError(limit)

SpecRanking == InitRanking /\ [][NextRanking]_vars

\* One call of scan_batch.
NextBatch ==
    \/ \E mime \in Mimes, ok \in BOOLEAN : BatchWrite(mime, ok)
    \/ \E frames \in {None} \cup {Some(total) : total \in Totals} : BatchExtract(frames)
    \/ BatchSample
    \/ \E nsfw_res \in NsfwResults, tag_res \in TaggingResults :
         BatchFrame(nsfw_res, tag_res)
    \/ BatchFinally
    \/ \E ok \in BOOLEAN : PipeWrite(ok)
    \/ \E nsfw, tagging, storage \in ModuleOutcomes, labels \in PipeLabelLists,
          dbok, statsok \in BOOLEAN :
         PipeModules(nsfw, tagging, labels, dbok, statsok, storage)
    \/ PipeFinally

SpecBatch == Init /\ [][NextBatch]_vars

\* _sample_indices on every total in -1..MaxTotal and step in 1..MaxStep.
InitSample ==
    /\ InitScan
    /\ InitTrends
    /\ batch = IdleBatch
    /\ pipe = IdlePipe
    /\ \E total \in (-1)..MaxTotal, step \in 1..MaxStep :
         sample = [IdleSample EXCEPT !.total = total, !.step = step]
    /\ mapping = IdleMapping
    /\ mgr = IdleMgr
    /\ http = IdleHttp
    /\ legacy_stats = NoLegacyStats
    /\ InitTokens

NextSample == SampleIndices

SpecSample == InitSample /\ [][NextSample]_vars

\* map_modules_to_flags on every list of up to MaxModules names.
InitMapping ==
    /\ InitScan
    /\ InitTrends
    /\ batch = IdleBatch
    /\ pipe = IdlePipe
    /\ sample = IdleSample
    /\ \E n \in 0..MaxModules : \E modules \in [1..n -> RawModules] :
         mapping = [IdleMapping EXCEPT !.modules = modules]
    /\ mgr = IdleMgr
    /\ http = IdleHttp
    /\ legacy_stats = NoLegacyStats
    /\ InitTokens

NextMapping == MapModules

SpecMapping == InitMapping /\ [][NextMapping]_vars

\* The ModelManager driven by direct calls.
NextManager ==
    \/ \E flags \in MgrFlags, free_pct \in VramReadings, outcome \in MgrOutcomes :
         MgrLoad(flags, free_pct, outcome)
    \/ \E flags \in CanRunFlags, free_pct \in VramReadings : MgrCanRun(flags, free_pct)
    \/ \E name \in ModelNames : MgrPredictCheck(name)
    \/ \E outcome \in PredictOutcomes : MgrPredictUse(outcome)

SpecManager == Init /\ [][NextManager]_vars

\* The ModelManager with its loaders working, as time passes: time passes
\* whenever no call is running, and a call that is running finishes.
NextIdle ==
    \/ \E flags \in MgrFlags, free_pct \in VramReadings :
         MgrLoad(flags, free_pct, IdleMgr.outcome)
    \/ \E name \in ModelNames : MgrPredictCheck(name)
    \/ \E outcome \in PredictOutcomes : MgrPredictUse(outcome)
    \/ MgrTick

SpecIdle ==
    /\ Init
    /\ [][NextIdle]_vars
    /\ WF_vars(MgrTick)
    /\ WF_vars(\E outcome \in PredictOutcomes : MgrPredictUse(outcome))

\* The token routes and verify_token, two requests at a time, as time passes.
NextAuth ==
    \/ \E a \in AuthSlots, cred \in Credentials : GetToken(a, cred)
    \/ \E a \in AuthSlots, email \in Emails, renew \in BOOLEAN :
         LegacyToken(a, email, renew)
    \/ \E a \in AuthSlots, token \in VerifyInputs : VerifyCall(a, token)
    \/ \E a \in AuthSlots : TokenLoad(a)
    \/ \E a \in AuthSlots : TokenWrite(a)
    \/ \E a \in AuthSlots : TokenReplace(a)
    \/ TokenTick

SpecAuth == Init /\ [][NextAuth]_vars

\* A server started on a token file, some time after the file was written.
InitHttp ==
    /\ InitScan /\ InitTrends /\ InitCalls
    /\ tokens_json \in TokenFiles
    /\ tokens_tmp = None
    /\ token_call = [a \in AuthSlots |-> IdleCall]
    /\ token_now \in {0, MaxNow}
    /\ token_table = {}
    /\ token_hist = NoTokenHist

\* The handlers of /check, /batch, /stats and /scan_image, one request after
\* the other, each with the calls its body makes.
NextHttp ==
    \/ \E route \in {"/check", "/batch"}, multipart \in BOOLEAN, token \in HttpTokens,
          upload \in Uploads : HttpRequest(route, multipart, token, upload)
    \/ \E route \in {"/stats", "/scan_image"}, token \in HttpTokens :
         HttpRequest(route, FALSE, token, "missing")
    \/ HttpContentType
    \/ HttpToken
    \/ HttpForm
    \/ \E dbok \in BOOLEAN : HttpStats(dbok)
    \/ HttpRunning("/check") /\ \E ok \in BOOLEAN : PipeWrite(ok)
    \/ HttpRunning("/check") /\
         \E nsfw, tagging, storage \in ModuleOutcomes, labels \in PipeLabelLists,
            dbok, statsok \in BOOLEAN :
           PipeModules(nsfw, tagging, labels, dbok, statsok, storage)
    \/ HttpRunning("/check") /\ PipeFinally
    \/ HttpCheckDone
    \/ HttpRunning("/batch") /\ \E mime \in Mimes, ok \in BOOLEAN : BatchWrite(mime, ok)
    \/ HttpRunning("/batch") /\
         \E frames \in {None} \cup {Some(total) : total \in Totals} : BatchExtract(frames)
    \/ HttpRunning("/batch") /\ BatchSample
    \/ HttpRunning("/batch") /\
         \E nsfw_res \in NsfwResults, tag_res \in TaggingResults :
           BatchFrame(nsfw_res, tag_res)
    \/ HttpRunning("/batch") /\ BatchFinally
    \/ HttpBatchDone
    \/ \E file_path \in HttpScanPaths, modules \in ScanModules :
         HttpScanBody(file_path, modules)
    \/ Resolve(1) \/ Hash(1) \/ GetRecord(1) \/ Validate(1) \/ Admit(1) \/ Load(1)
    \/ Basic(1) \/ Nsfw(1) \/ Tags(1) \/ Face(1) \/ Vector(1)
    \/ BuildResult(1) \/ Persist(1) \/ SaveTags(1) \/ Return(1)
    \/ HttpScanDone

SpecHttp == InitHttp /\ [][NextHttp]_vars

\* ------------------------------------------------- properties of the store

\* flags_done of a stored hash, 0 when there is no row.
StoredFlags(F, h) == IF h \in DOMAIN F THEN F[h].flags_done ELSE 0

\* The last direct store call was a committed write of a content record.
RecordWrite ==
    lastOp.ok /\ lastOp.op \in {"upsert_scan_result", "save_scan_result"}

\* The flags and optional fields of a stored row, without path and last_scanned.
FieldsOf(F, h) ==
    IF h \in DOMAIN F
    THEN Some([flags_done |-> F[h].flags_done, meta_json |-> F[h].meta_json,
               nsfw_score |-> F[h].nsfw_score, face_bbox_json |-> F[h].face_bbox_json,
               vector_blob |-> F[h].vector_blob])
    ELSE None

\* The path of a stored row.
PathOf(F, h) == IF h \in DOMAIN F THEN Some(F[h].path) ELSE None

\* Two values for one optional field of which none overrides the other.
Agree(a, b) == a = None \/ b = None \/ a = b

\* Two partial updates that give no optional field different values.
Compatible(u, v) ==
    /\ Agree(MetaJsonOf(u.meta), MetaJsonOf(v.meta))
    /\ Agree(u.nsfw_score, v.nsfw_score)
    /\ Agree(FaceJsonOf(u.face_bbox), FaceJsonOf(v.face_bbox))
    /\ Agree(u.vector_blob, v.vector_blob)

\* upsert of u at path p, then of v at path q, on the store F for hash h.
UpsertTwice(F, h, p, u, q, v) == ApplyUpsert(ApplyUpsert(F, h, p, u, 1), h, q, v, 2)

\* C2 (as stated): across the store writes, no bit of a stored fingerprint is
\* ever cleared and no fingerprint's record is ever dropped.
C2_FlagsNeverClearedOrDropped ==
    \A h \in DOMAIN lastOp.before :
        /\ h \in DOMAIN files
        /\ BitAnd(lastOp.before[h].flags_done, files[h].flags_done)
             = lastOp.before[h].flags_done

\* C2 (amended): a store write never clears a bit of a record that stays
\* stored, and a record is dropped only by a committed upsert_scan_result or
\* save_scan_result of a different fingerprint at the path the record holds.
C2_FlagsKeptUnlessPathTaken ==
    \A h \in DOMAIN lastOp.before :
        IF h \in DOMAIN files
        THEN BitAnd(lastOp.before[h].flags_done, files[h].flags_done)
               = lastOp.before[h].flags_done
        ELSE /\ RecordWrite
             /\ lastOp.file_hash # h
             /\ lastOp.before[h].path = lastOp.path

\* C2 witness: a committed write brought new bits to a record that already
\* held bits.
C2_Witness_BitsMerged ==
    /\ lastOp.ok
    /\ lastOp.file_hash \in DOMAIN lastOp.before
    /\ lastOp.file_hash \in DOMAIN files
    /\ lastOp.before[lastOp.file_hash].flags_done # 0
    /\ files[lastOp.file_hash].flags_done # lastOp.before[lastOp.file_hash].flags_done

\* C5 (as stated): upsert_scan_result is idempotent, and two partial updates
\* of one fingerprint give the same stored flags and fields in either order.
C5_UpsertIdempotentCommutative ==
    (lastOp.ok /\ lastOp.op = "upsert_scan_result") =>
        LET F == lastOp.before
            h == lastOp.file_hash
            p == lastOp.path
            u == lastOp.u
        IN /\ FieldsOf(UpsertTwice(F, h, p, u, p, u), h) = FieldsOf(files, h)
           /\ \A v \in StoreUpdates, q \in StorePaths :
                FieldsOf(UpsertTwice(F, h, p, u, q, v), h)
                  = FieldsOf(UpsertTwice(F, h, q, v, p, u), h)

\* C5 (amended): upsert_scan_result is idempotent; two partial updates of one
\* fingerprint give the same stored flags and fields in either order when they
\* give no optional field different values, and the same path when they name
\* the same path (otherwise the later update's value and path are stored).
C5_UpsertCommutesWhenCompatible ==
    (lastOp.ok /\ lastOp.op = "upsert_scan_result") =>
        LET F == lastOp.before
            h == lastOp.file_hash
            p == lastOp.path
            u == lastOp.u
        IN /\ FieldsOf(UpsertTwice(F, h, p, u, p, u), h) = FieldsOf(files, h)
           /\ PathOf(UpsertTwice(F, h, p, u, p, u), h) = PathOf(files, h)
           /\ \A v \in StoreUpdates, q \in StorePaths :
                /\ Compatible(u, v) =>
                     FieldsOf(UpsertTwice(F, h, p, u, q, v), h)
                       = FieldsOf(UpsertTwice(F, h, q, v, p, u), h)
                /\ p = q =>
                     PathOf(UpsertTwice(F, h, p, u, q, v), h)
                       = PathOf(UpsertTwice(F, h, q, v, p, u), h)
                /\ ~Compatible(u, v) =>
                     FieldsOf(UpsertTwice(F, h, p, u, q, v), h)
                       # FieldsOf(UpsertTwice(F, h, q, v, p, u), h)

\* C5 witness: an upsert merged a partial update into a stored record that
\* already held a field, and another update with other fields commutes with it.
C5_Witness_MergedIntoStored ==
    /\ lastOp.ok
    /\ lastOp.op = "upsert_scan_result"
    /\ lastOp.file_hash \in DOMAIN lastOp.before
    /\ lastOp.before[lastOp.file_hash].meta_json # None
    /\ lastOp.u.meta = None
    /\ lastOp.u.nsfw_score # None
    /\ \E v \in StoreUpdates : v # lastOp.u /\ Compatible(lastOp.u, v)

\* C6 (as stated): on every committed upsert_scan_result and save_scan_result,
\* an optional field passed as None keeps its previously stored value.
C6_AbsentFieldsKeepStoredValue ==
    (RecordWrite /\ lastOp.file_hash \in DOMAIN lastOp.before) =>
        LET old == lastOp.before[lastOp.file_hash]
            now == files[lastOp.file_hash]
            u == lastOp.u
        IN /\ u.meta = None => now.meta_json = old.meta_json
           /\ u.nsfw_score = None => now.nsfw_score = old.nsfw_score
           /\ u.face_bbox = None => now.face_bbox_json = old.face_bbox_json
           /\ u.vector_blob = None => now.vector_blob = old.vector_blob

\* -------------------------------------------------- properties of the scan

\* The capabilities whose bit is in flags.
CapsOf(flags) == {cap \in SeqToSet(CapOrder) : CapBit(cap) \in Bits(flags)}

\* The call in slot s has returned a result without error.
Served(s) == pc[s] = "done" /\ result[s].error = None

\* The result of a call holds, for the requested flags, what the engines give
\* for the content h (statistics compared as the JSON sent to the client).
Complete(res, flags, h) ==
    /\ FLAG_BASIC \in Bits(flags) =>
         MetaJsonOf(res.statistics) = MetaJsonOf(Some(ContentMeta(h)))
    /\ FLAG_NSFW \in Bits(flags) => res.nsfw_score = ContentScore(h)
    /\ FLAG_TAGS \in Bits(flags) =>
         SeqToSet(res.tags)
           = SeqToSet(ContentTags(h).tags) \cup SeqToSet(ContentTags(h).characters)

\* The result scan_image builds from the record it read, computing nothing.
ResultFromStore(l) ==
    IF l.existing = None THEN Result(l.path, None, None, None, NoTags)
    ELSE LET row == CHOOSE x \in l.existing : TRUE IN
         Result(l.path, None, row.meta_json, row.nsfw_score,
                [tags |-> row.tags, characters |-> row.characters])

\* The call made no model load, no capability invocation and no store write.
NoWork(e) == ~e.loads /\ e.invoked = <<>> /\ e.writes = <<>>

\* C1 (as stated): between scan_image calls, flags_done of every fingerprint
\* is the OR of exactly the capability bits some scan of it successfully
\* computed: no bit of a failed or defaulted computation, none missing.
C1_FlagsEqualComputedBits ==
    loop = 0 => \A h \in Hashes : StoredFlags(files, h) = computed[h].bits

\* C3: a scan whose requested flags are covered by the stored flags_done
\* (needed_now = 0) runs no corruption validation, no admission check, no
\* model load, no capability and makes no store write.
C3_CacheHitDoesNoWork ==
    \A s \in Slots :
        eff[s].needed = Some(0) =>
            /\ ~eff[s].validated
            /\ ~eff[s].admission
            /\ NoWork(eff[s])
            /\ pc[s] \notin {"validate", "admit", "load", "basic", "nsfw", "tags", "face",
                             "vector", "upsert", "save_tags"}

\* C3 witness: a scan that requested capabilities found them all stored and
\* returned its result.
C3_Witness_ServedFromStore ==
    \E s \in Slots :
        /\ Served(s)
        /\ loc[s].flags # 0
        /\ loc[s].existing # None
        /\ eff[s].needed = Some(0)

\* C4 (as stated): two concurrent first scans of one unseen fingerprint, in
\* which nothing failed, each return the complete result for their requested
\* flags, and the stored flags_done is the OR of the bits both computed.
C4_ConcurrentFirstScansComplete ==
    (\A s \in Slots :
        /\ Served(s)
        /\ eff[s].fresh
        /\ eff[s].concurrent
        /\ Clean(eff[s])
        /\ loc[s].file_hash = "h1") =>
        /\ \A s \in Slots : Complete(result[s], loc[s].flags, "h1")
        /\ StoredFlags(files, "h1") = BitOr(eff[1].ok_bits, eff[2].ok_bits)

\* C7 (as stated): a scan served wholly from the stored record returns the
\* statistics, nsfw_score and tag set the computing scan returned.
C7_StoredOutputsEqualComputed ==
    \A s \in Slots :
        (Served(s) /\ eff[s].needed = Some(0) /\ ~eff[s].store_errors) =>
            LET c == computed[loc[s].file_hash] IN
            /\ (FLAG_BASIC \in Bits(loc[s].flags) /\ c.statistics # None) =>
                 \A st \in c.statistics :
                     MetaJsonOf(result[s].statistics) = MetaJsonOf(st)
            /\ (FLAG_NSFW \in Bits(loc[s].flags) /\ c.nsfw_score # None) =>
                 c.nsfw_score = Some(result[s].nsfw_score)
            /\ (FLAG_TAGS \in Bits(loc[s].flags) /\ c.tags # None) =>
                 c.tags = Some(SeqToSet(result[s].tags))

\* C8 (as stated): a call in which a needed capability failed still returns
\* (nothing raises out of scan_image) and has run every needed capability.
C8_CapabilityFailureIsolated ==
    \A s \in Slots :
        (pc[s] \in Terminal /\ eff[s].failed # {}) =>
            /\ pc[s] = "done"
            /\ CapsOf(loc[s].needed_now) \subseteq SeqToSet(eff[s].invoked)

\* C9 (as stated): a scan of an invalid path or of corrupt content ends with an
\* explicit error result, having loaded no model, invoked no capability and
\* written nothing.
C9_InvalidInputGivesErrorResult ==
    \A s \in Slots :
        (/\ pc[s] \in {"done", "raised"}
         /\ \/ eff[s].bad_path
            \/ eff[s].validated /\ IsCorrupt(loc[s].file_hash)) =>
            /\ pc[s] = "done"
            /\ result[s].error # None
            /\ NoWork(eff[s])

\* C10 (as stated): a scan denied admission does not fail, loads and invokes
\* nothing, writes nothing, returns the stored values, and skips only the
\* heavy capabilities: the needed light ones (basic, nsfw) still run.
C10_DenialSkipsOnlyHeavy ==
    \A s \in Slots :
        (eff[s].denied /\ pc[s] \in Terminal) =>
            /\ Served(s)
            /\ ~eff[s].loads
            /\ eff[s].writes = <<>>
            /\ \A n \in eff[s].needed :
                 SeqToSet(eff[s].invoked) = CapsOf(BitAnd(n, FLAG_BASIC + FLAG_NSFW))

\* C10 (amended): a scan denied admission does not fail: it skips every needed
\* capability of the call, light ones included, loads no model, writes nothing
\* to the store, and returns the result built from the stored values.
C10_DenialSkipsEveryCapability ==
    \A s \in Slots :
        eff[s].denied =>
            /\ pc[s] # "raised"
            /\ loc[s].needed_now = 0
            /\ NoWork(eff[s])
            /\ pc[s] \in Terminal =>
                 /\ Served(s)
                 /\ result[s] = ResultFromStore(loc[s])

\* C10 witness: a scan that needed a light and a heavy capability was denied
\* admission and returned.
C10_Witness_DeniedWithLightNeeded ==
    \E s \in Slots :
        /\ Served(s)
        /\ eff[s].denied
        /\ \E n \in eff[s].needed :
             /\ FLAG_BASIC \in Bits(n)
             /\ FLAG_TAGS \in Bits(n)

\* C11 (as stated): a scan in which upsert_scan_result or save_tags hit a
\* storage error still returns its result without raising, and leaves the
\* cache not updated: none of the bits it needed is stored, so that the next
\* scan with the same flags needs them again.
C11_FailedWriteLeavesCacheUnchanged ==
    \A s \in Slots :
        (pc[s] \in Terminal /\ eff[s].failed_writes # {}) =>
            /\ Served(s)
            /\ loop = 0 =>
                 BitAnd(StoredFlags(files, loc[s].file_hash), loc[s].needed_now) = 0

\* ------------------------------------------- properties of tags and trends

\* The non-empty names of a list.
NamesOf(xs) == SeqToSet(xs) \ {""}

\* The last tag operation was a committed save_tags.
SavedTags == lastTagOp.op = "save_tags" /\ lastTagOp.ok

\* The last tag operation was a committed update_tag_trends.
RecordedSightings == lastTagOp.op = "update_tag_trends" /\ lastTagOp.ok

\* The sightings a bucket table holds for tag n.
BucketSum(TR, n) == SumCounts(TR, BucketsOf(TR, n))

\* global_count of tag n, 0 when the tag has no row.
GlobalCount(T, n) == IF n \in DOMAIN T THEN T[n].global_count ELSE 0

\* day_count of the bucket of tag n on a day, 0 when there is none.
DayCount(TR, day, n) == IF <<day, n>> \in DOMAIN TR THEN TR[<<day, n>>] ELSE 0

\* C12 (as stated): after a committed save_tags(F, general, character), F is
\* associated with exactly the de-duplicated non-empty tags of both lists,
\* each once, and the associations of the other fingerprints are unchanged.
C12_SaveTagsReplacesAssociations ==
    SavedTags =>
        /\ SeqToSet(file_tags[lastTagOp.file_hash])
             = NamesOf(lastTagOp.tags_list) \cup NamesOf(lastTagOp.character_tags_list)
        /\ Len(file_tags[lastTagOp.file_hash])
             = Cardinality(SeqToSet(file_tags[lastTagOp.file_hash]))
        /\ \A h \in Hashes \ {lastTagOp.file_hash} :
             file_tags[h] = lastTagOp.file_tags[h]

\* C13 (as stated): after a committed save_tags(F, G, C) with disjoint G and
\* C, get_tags_for_hash(F) returns the tags of G as general tags and the tags
\* of C as character tags.
C13_TagsRoundTrip ==
    (SavedTags /\ NamesOf(lastTagOp.tags_list) \cap NamesOf(lastTagOp.character_tags_list) = {}) =>
        LET got == get_tags_for_hash(tags, file_tags, lastTagOp.file_hash) IN
        /\ SeqToSet(got.tags) = NamesOf(lastTagOp.tags_list)
        /\ SeqToSet(got.characters) = NamesOf(lastTagOp.character_tags_list)

\* C14: a committed update_tag_trends(tags) leaves a tag record for every
\* (non-empty) tag of the list, created with global_count 0 when there was
\* none and not replaced when there was one, and raises the bucket of the
\* call's day by one for each listed tag (once per tag, however often the
\* list names it) and for no other tag, whatever the bucket held before.
C14_SightingsRecorded ==
    RecordedSightings =>
        LET names == NamesOf(lastTagOp.tags_list)
            T0 == lastTagOp.tags
            TR0 == lastTagOp.tag_trends
            day == lastTagOp.day
        IN /\ DOMAIN tags = DOMAIN T0 \cup names
           /\ \A n \in names \ DOMAIN T0 :
                tags[n].global_count = 0 /\ ~tags[n].is_character
           /\ \A n \in DOMAIN T0 :
                /\ tags[n].is_character = T0[n].is_character
                /\ tags[n].global_count >= T0[n].global_count
           /\ \A n \in TagNames :
                DayCount(tag_trends, day, n)
                  = DayCount(TR0, day, n) + (IF n \in names THEN 1 ELSE 0)

\* C14 witness: a repeated call raised an existing bucket of the day from 1
\* and the list named a tag twice.
C14_Witness_RepeatedCall ==
    /\ RecordedSightings
    /\ Len(lastTagOp.tags_list) > Cardinality(NamesOf(lastTagOp.tags_list))
    /\ \E n \in NamesOf(lastTagOp.tags_list) :
         /\ DayCount(lastTagOp.tag_trends, lastTagOp.day, n) >= 1
         /\ DayCount(tag_trends, lastTagOp.day, n) >= 2

\* C15: in every state, for every tag, global_count plus the counts of its
\* remaining buckets is the number of sightings ever recorded for it; a
\* committed update_tag_trends with a tag to record adds to global_count the
\* summed counts of exactly the buckets dated more than 30 days before its
\* day and deletes exactly those, and nothing else changes global_count.
C15_SightingsConserved ==
    /\ \A n \in TagNames :
         GlobalCount(tags, n) + BucketSum(tag_trends, n) = sightings[n]
    /\ LET T0 == lastTagOp.tags
           TR0 == lastTagOp.tag_trends
           retires == RecordedSightings /\ NamesOf(lastTagOp.tags_list) # {}
           old == IF retires
                  THEN {k \in DOMAIN TR0 : lastTagOp.day - k[1] > RetentionDays}
                  ELSE {}
       IN /\ DOMAIN TR0 \ DOMAIN tag_trends = old
          /\ \A n \in DOMAIN T0 :
               tags[n].global_count
                 = T0[n].global_count + SumCounts(TR0, BucketsOf(TR0, n) \cap old)

\* C15 witness: a retirement folded a bucket into global_count while a
\* bucket dated exactly 30 days before stayed.
C15_Witness_Retired ==
    /\ RecordedSightings
    /\ \E k \in DOMAIN lastTagOp.tag_trends :
         /\ k \notin DOMAIN tag_trends
         /\ tags[k[2]].global_count > 0
    /\ \E n \in TagNames : GlobalCount(tags, n) > 0 /\ BucketSum(tag_trends, n) > 0

\* ------------------------------------------------ properties of the ranking

\* A call of get_weighted_tag_trends returned its rows.
Ranked == lastTagOp.op = "get_weighted_tag_trends" /\ lastTagOp.ok

\* The buckets of tag n that are between lo and hi days old.
Aged(n, lo, hi) ==
    {k \in BucketsOf(tag_trends, n) : today - k[1] >= lo /\ today - k[1] <= hi}

\* The positions of the returned list.
Rows == 1..Len(trending.rows)

\* The tags of the returned list.
RowTags == {trending.rows[i].tag : i \in Rows}

\* Tag n holds exactly one bucket, age days old, with count sightings.
Only(n, age, count) ==
    /\ BucketsOf(tag_trends, n) = {<<today - age, n>>}
    /\ tag_trends[<<today - age, n>>] = count

\* Tag a precedes tag b wherever b is returned, and a list with room left
\* holds a.
RanksAbove(a, b) ==
    /\ \A j \in Rows :
         trending.rows[j].tag = b => \E i \in 1..(j - 1) : trending.rows[i].tag = a
    /\ Len(trending.rows) < trending.limit => a \in RowTags

\* C16: every row get_weighted_tag_trends returns carries 3 x (the tag's
\* sightings in buckets at most 1 day old) + 1 x (its sightings in buckets
\* more than 1 and at most 7 days old), older buckets adding nothing, and a
\* list with room left holds every tag whose score is positive.
C16_WeightedScore ==
    Ranked =>
        LET score(n) == 3 * SumCounts(tag_trends, Aged(n, 0, 1))
                          + SumCounts(tag_trends, Aged(n, 2, 7))
        IN /\ \A i \in Rows :
                trending.rows[i].weighted_count = score(trending.rows[i].tag)
           /\ Len(trending.rows) < trending.limit =>
                RowTags = {n \in DOMAIN tags : score(n) > 0}

\* C16 witness: a returned tag holds a bucket of yesterday and one of two
\* days ago, and the other tag only a bucket eight days old.
C16_Witness_MixedAges ==
    /\ Ranked
    /\ \E n \in RowTags : Aged(n, 1, 1) # {} /\ Aged(n, 2, 2) # {}
    /\ \E n \in DOMAIN tags : BucketsOf(tag_trends, n) # {} /\ Aged(n, 0, 7) = {}

\* C17 (as stated): 5 sightings yesterday rank strictly above 10 sightings
\* eight days ago, and 2 sightings today rank strictly above 2 sightings on
\* any single earlier day of the last week.
C17_RecentOutranksAnyEarlierDay ==
    Ranked =>
        \A a, b \in DOMAIN tags :
            /\ (a # b /\ Only(a, 1, 5) /\ Only(b, 8, 10)) => RanksAbove(a, b)
            /\ (a # b /\ Only(a, 0, 2) /\ \E d \in 1..7 : Only(b, d, 2))
                 => RanksAbove(a, b)

\* C17 (amended): 5 sightings yesterday rank strictly above 10 sightings
\* eight days ago, and 2 sightings today rank strictly above 2 sightings on
\* a single day two to seven days ago.
C17_RecentOutranksOlder ==
    Ranked =>
        \A a, b \in DOMAIN tags :
            /\ (a # b /\ Only(a, 1, 5) /\ Only(b, 8, 10)) => RanksAbove(a, b)
            /\ (a # b /\ Only(a, 0, 2) /\ \E d \in 2..7 : Only(b, d, 2))
                 => RanksAbove(a, b)

\* C17 witness: both tags were returned, the one sighted twice today before
\* the one sighted twice seven days ago.
C17_Witness_TodayBeforeLastWeek ==
    /\ Ranked
    /\ \E a, b \in DOMAIN tags :
         /\ Only(a, 0, 2) /\ Only(b, 7, 2)
         /\ Len(trending.rows) = 2
         /\ trending.rows[1].tag = a /\ trending.rows[2].tag = b

\* C18: get_weighted_tag_trends(limit) returns at most limit rows in
\* descending order of score, rows of equal score in the order of their
\* names.
C18_RankingDeterministic ==
    Ranked =>
        /\ Len(trending.rows) <= trending.limit
        /\ \A i, j \in Rows :
             i < j =>
               \/ trending.rows[i].weighted_count > trending.rows[j].weighted_count
               \/ /\ trending.rows[i].weighted_count = trending.rows[j].weighted_count
                  /\ NameRank(trending.rows[i].tag) < NameRank(trending.rows[j].tag)

\* ---------------------------------------------- properties of scan_batch

\* The greatest risk among the analysed frames, 0 when there is none.
MaxAnalysedRisk ==
    LET R == {batch.analysed[i].risk : i \in 1..Len(batch.analysed)} \cup {0}
    IN CHOOSE r \in R : \A q \in R : q <= r

\* The labels of the analysed frames.
AnalysedLabels == UNION {batch.analysed[i].labels : i \in 1..Len(batch.analysed)}

\* C19: scan_batch analyses the sampled frames in ascending index order and
\* returns the running maximum of their risks; it analyses no frame after
\* one that brought the maximum to 1.0, and stops earlier only for that.
C19_EarlyExitAtSaturation ==
    (BatchOver /\ batch.total > 0) =>
        LET n == Len(batch.analysed) IN
        /\ ~batch.raised /\ batch.result # None
        /\ n >= 1 /\ n <= Len(batch.indices)
        /\ \A i \in 1..n : batch.analysed[i].index = batch.indices[i]
        /\ \A i \in 1..(n - 1) : batch.analysed[i].risk < Saturated
        /\ n < Len(batch.indices) => batch.analysed[n].risk >= Saturated
        /\ \A r \in batch.result : r.risk = Round3(MaxAnalysedRisk)

\* C20: scan_batch returns frameCount = the number of extracted frames, tags
\* = the first 200 of the sorted union of the analysed frames' labels, and
\* risk = the greatest analysed-frame risk rounded to 3 decimals.
C20_BatchResult ==
    (BatchOver /\ batch.extracted) =>
        /\ ~batch.raised
        /\ batch.result =
             Some(BatchResult(MaxAnalysedRisk, AnalysedLabels, batch.total))

\* C21: when the extraction yields zero frames, scan_batch returns risk 0.0,
\* no tags and frameCount 0, does not raise and analyses no frame.
C21_ZeroFrames ==
    (BatchOver /\ batch.extracted /\ batch.total = 0) =>
        /\ ~batch.raised
        /\ batch.result = Some([risk |-> 0, tags |-> <<>>, frameCount |-> 0])
        /\ batch.analysed = <<>>

\* C21 witness: a call whose extraction yielded no frame has returned.
C21_Witness_NoFrames ==
    batch.pc = "returned" /\ batch.extracted /\ batch.total = 0

\* C22: for total >= 1 and step >= 1 the list of _sample_indices is strictly
\* ascending and its members are exactly 0, total - 1 and the multiples of
\* step below total, all in 0..total-1; for total <= 0 it is empty.
C22_SampleIndices ==
    sample.called =>
        LET r == sample.indices
            total == sample.total
        IN IF total <= 0
           THEN r = <<>>
           ELSE /\ \A i, j \in 1..Len(r) : i < j => r[i] < r[j]
                /\ {r[i] : i \in 1..Len(r)} =
                     {0, total - 1} \cup
                       ({k * sample.step : k \in 0..total} \cap 0..(total - 1))
                /\ \A i \in 1..Len(r) : r[i] >= 0 /\ r[i] < total

\* C22 witness: a list of at least three indices whose last one is not a
\* multiple of the step.
C22_Witness_LastIsExtra ==
    /\ sample.called
    /\ Len(sample.indices) >= 3
    /\ (sample.total - 1) % sample.step # 0

\* C23: when scan_batch or process_image_bytes has ended, on whatever path,
\* its temporary input file and its temporary frame directory are gone.
C23_TemporariesRemoved ==
    /\ BatchOver => ~batch.file_on_disk /\ ~batch.dir_on_disk
    /\ PipeOver => ~pipe.file_on_disk

\* ------------------------------------- properties of map_modules_to_flags

\* The bit the specification gives a name as sent: basic and statistics 1,
\* nsfw 2, tags 4, face 8, vector 16, whatever the case of the letters and
\* the whitespace around them; 0 for any other name.
NamedBit(module) ==
    CASE module \in {"basic", "statistics"} -> 1
      [] module \in {"nsfw", "NSFW"} -> 2
      [] module \in {"tags", " Tags "} -> 4
      [] module \in {"face", "Face\n"} -> 8
      [] module = "vector" -> 16
      [] OTHER -> 0

\* C24: map_modules_to_flags returns the OR of the bits of the recognized
\* names of the list, ignoring case, surrounding whitespace and unrecognized
\* names, and returns 1 (basic), never 0, when no name is recognized.
C24_ModulesToFlags ==
    mapping.called =>
        LET bits == {NamedBit(mapping.modules[i]) : i \in 1..Len(mapping.modules)} \ {0}
        IN /\ mapping.flags = (IF bits = {} THEN 1 ELSE SumOf(bits))
           /\ mapping.flags # 0

\* C24 witness: a list with an unrecognized name, a name in capitals and a
\* name of another capability gave two bits; and a list of unrecognized
\* names only gave basic.
C24_Witness_MixedList ==
    /\ mapping.called
    /\ \/ /\ "bogus" \in {mapping.modules[i] : i \in 1..Len(mapping.modules)}
          /\ "NSFW" \in {mapping.modules[i] : i \in 1..Len(mapping.modules)}
          /\ mapping.flags = 10
       \/ /\ mapping.modules = <<"bogus", " ">>
          /\ mapping.flags = 1

\* ------------------------------------------ properties of the ModelManager

\* The last direct call was load_models_for_flags.
Loaded == mgr.op = "load"

\* The slots the flags of the last load call name.
Requested ==
    {n \in ModelNames :
        \/ n = "nsfw" /\ 2 \in Bits(mgr.flags)
        \/ n = "tags" /\ 4 \in Bits(mgr.flags)
        \/ n = "face" /\ 8 \in Bits(mgr.flags)
        \/ n = "clip" /\ 16 \in Bits(mgr.flags)}

\* The headroom the last load call read was below 15 %.
Pressure == \E f \in mgr.free_pct : f < 15

\* C25: load_models_for_flags returns normally whatever its loaders do; a
\* requested slot whose load failed is in neither models nor last-used, and
\* every other requested slot was attempted, so is loaded when its loader
\* works.
C25_LoadNeverFails ==
    Loaded =>
        /\ ~mgr.raised
        /\ \A n \in Requested \ mgr.before :
             IF mgr.outcome[n] = "ok"
             THEN n \in models
             ELSE n \notin models /\ n \notin model_last_used

\* C26: under headroom below 15 % load_models_for_flags evicts the loaded
\* slots among tags, clip, face that its flags do not name, in that order,
\* and no other slot; with headroom of 15 % or more, or unknown, it evicts
\* nothing.
C26_EvictionOrder ==
    Loaded =>
        LET rank(n) == CASE n = "tags" -> 1 [] n = "clip" -> 2 [] n = "face" -> 3
                         [] OTHER -> 0
            gone == {mgr.evicted[i] : i \in 1..Len(mgr.evicted)}
        IN /\ \A i, j \in 1..Len(mgr.evicted) :
                i < j => rank(mgr.evicted[i]) < rank(mgr.evicted[j])
           /\ gone \cap Requested = {}
           /\ gone = IF Pressure
                     THEN (mgr.before \cap {"tags", "clip", "face"}) \ Requested
                     ELSE {}
           /\ mgr.before \ models = gone
           /\ gone \cap model_last_used = {}

\* C26 witness: a call for nsfw under pressure evicted tags, clip and face,
\* in that order.
C26_Witness_EvictedAll ==
    Loaded /\ Pressure /\ mgr.evicted = <<"tags", "clip", "face">>

\* The default of the predict operation of a slot.
DefaultOf(name) ==
    CASE name = "nsfw" -> Some(0)
      [] name = "tags" -> Some(NoTags)
      [] name = "face" -> Some("fb0")
      [] name = "clip" -> Some(None)

\* C27: a predict operation called while its slot is not loaded returns its
\* default without raising, and leaves the loaded slots and every last-used
\* timestamp as they were.
C27_PredictUnloaded ==
    [][(mgr'.op = "predict" /\ mgr' # mgr /\ ~mgr.inflight /\ mgr'.name \notin models) =>
          /\ mgr'.value = DefaultOf(mgr'.name)
          /\ ~mgr'.raised /\ ~mgr'.inflight
          /\ models' = models
          /\ model_last_used' = model_last_used
          /\ mgr'.idle = mgr.idle]_vars

\* C27 witness: a prediction on a slot that is not loaded has returned while
\* another slot is loaded and stamped.
C27_Witness_Unloaded ==
    /\ mgr.op = "predict" /\ ~mgr.inflight
    /\ mgr.name \notin mgr.before
    /\ mgr.value = DefaultOf(mgr.name)
    /\ model_last_used # {}

IdleSlot(n) == n \in models /\ n # "nsfw" /\ mgr.idle[n] > IdleLimit

\* C29: a loaded slot other than the always-resident one that has been idle
\* for longer than the idle duration is eventually unloaded.
C29_IdleSlotsUnloaded ==
    \A n \in ModelNames : IdleSlot(n) ~> (n \notin models)

\* C30: no two content records share a path; a committed upsert of
\* fingerprint F at path P leaves no record holding P under another
\* fingerprint, leaves F's record at P, and leaves every other record that
\* was at a path other than P as it was.
C30_PathOwnedByOneRecord ==
    /\ \A g, h \in DOMAIN files : files[g].path = files[h].path => g = h
    /\ (lastOp.op = "upsert_scan_result" /\ lastOp.ok) =>
         LET B == lastOp.before
             F == lastOp.file_hash
             P == lastOp.path
         IN /\ \A g \in DOMAIN B :
                 (g # F /\ B[g].path = P) => g \notin DOMAIN files
            /\ PathOf(files, F) = Some(P)
            /\ \A g \in DOMAIN B :
                 (g # F /\ B[g].path # P) => (g \in DOMAIN files /\ files[g] = B[g])
            /\ DOMAIN files \subseteq DOMAIN B \cup {F}

\* An upsert has just taken a path over from a record of another fingerprint.
C30_Witness_PathTakenOver ==
    /\ lastOp.op = "upsert_scan_result" /\ lastOp.ok
    /\ \E g \in DOMAIN lastOp.before :
         /\ g # lastOp.file_hash
         /\ lastOp.before[g].path = lastOp.path
         /\ g \notin DOMAIN files
    /\ PathOf(files, lastOp.file_hash) = Some(lastOp.path)

\* ------------------------------------------------ properties of the tokens

\* The verify_token call of slot a has decided.
Decided(a) ==
    token_call[a].op = "verify_token" /\ token_call[a].pc \in {"write", "replace", "done", "raised"}

\* The entry handed out under key is still what tokens.json holds under it.
Stored(key, entry) ==
    /\ key \in DOMAIN tokens_json
    /\ "token" \in DOMAIN entry =>
         /\ "token" \in DOMAIN tokens_json[key]
         /\ tokens_json[key].token = entry.token

\* C39: verify_token returns true only for a string that was returned as a
\* token by GET/POST /token or legacy_get_token; no other string, such as the
\* address a legacy token is stored under, is accepted.
C39_OnlyIssuedTokensAccepted ==
    \A a \in AuthSlots :
        (Decided(a) /\ token_call[a].ok) => token_call[a].key \in token_hist.ever

\* C40: every token returned to a client, unless it has expired since, is
\* in tokens.json under its key, whatever the interleaving of the requests.
C40_IssuedTokensStayStored ==
    \A key \in DOMAIN token_hist.live :
        Expired(token_hist.live[key], token_now) \/ Stored(key, token_hist.live[key])

\* --------------------------------------------- properties of the handlers

\* The names the modules of POST /check are reported under.
ModuleNames == {"nsfw_scanner", "tagging", "deepdanbooru_tags", "statistics",
                "image_storage"}

\* The request was answered with the status.
Answered(route, status) ==
    http.route = route /\ http.pc = "responded" /\ http.status = status

\* C31: a POST /check answered with 200 carries, under "modules" of the
\* response, an entry for each of the five modules, each a dict.
C31_FiveModuleEntries ==
    Answered("/check", 200) =>
        LET modules == DictGet(http.content, "modules", EmptyDict) IN
        \A name \in ModuleNames : name \in DOMAIN modules

\* The body of a handler has started: the pipeline, the batch scan, the
\* statistics or the scan_image body.
BodyReached ==
    \/ pipe.pc # "idle"
    \/ batch.pc # "idle"
    \/ Answered("/stats", 200)
    \/ http.pc = "scan"

\* C32: the pipeline, the batch scan, the statistics and the scan_image body
\* run only after verify_token returned true for the request's token, a
\* token tokens.json accepts; /check and /batch answer a request that is not
\* multipart with 403 without calling verify_token, a multipart request with
\* a missing or rejected token with 403, and a missing upload with 400 only
\* after the token was accepted.
C32_VerifiedBeforeBody ==
    /\ BodyReached =>
         /\ http.verified = Some(TRUE)
         /\ Accepts(tokens_json, http.token)
    /\ (http.route \in {"/check", "/batch"} /\ http.pc = "responded") =>
         /\ ~http.multipart => (http.status = 403 /\ http.verified = None)
         /\ (http.multipart /\ (http.token = "" \/ http.verified = Some(FALSE))) =>
              http.status = 403
         /\ http.status = 400 => http.verified = Some(TRUE)
         /\ (http.multipart /\ http.verified = Some(TRUE) /\ http.upload = "missing") =>
              http.status = 400

\* The pipeline of an accepted /check request has run to its end.
C32_Witness_PipelineAfterToken ==
    HttpRunning("/check") /\ PipeOver /\ http.verified = Some(TRUE)

\* The place of a capability in the order basic, risk, tags, face, vector.
CapRank(cap) ==
    CASE cap = "basic" -> 1
      [] cap = "nsfw" -> 2
      [] cap = "tags" -> 3
      [] cap = "face" -> 4
      [] cap = "vector" -> 5

\* C33: within one scan_image call the capabilities are invoked in the
\* order basic, nsfw, tags, face, vector: each invoked capability comes
\* after those invoked before it in this order, and every needed capability
\* that precedes it has been invoked before it.
C33_FixedDispatchOrder ==
    \A s \in Slots :
        LET inv == eff[s].invoked IN
        \A i \in 1..Len(inv) :
            /\ \A j \in 1..(i - 1) : CapRank(inv[j]) < CapRank(inv[i])
            /\ \A cap \in {"basic", "nsfw", "tags", "face", "vector"} :
                 (CapRank(cap) < CapRank(inv[i]) /\ CapBit(cap) \in Bits(loc[s].needed_now))
                    => \E j \in 1..(i - 1) : inv[j] = cap

\* A call has invoked the face capability and then the vector capability.
C33_Witness_FaceThenVector ==
    \E s \in Slots : eff[s].invoked = <<"face", "vector">>

\* C34: a scan_image call replaces the tag associations and schedules a
\* sighting record only when it invoked the tags capability itself and the
\* capability gave tags; a call that computes other capabilities only
\* writes no associations and schedules nothing.
C34_TagsWrittenOnlyWhenComputed ==
    \A s \in Slots :
        (\E w \in {"save_tags", "update_tag_trends"} : w \in SeqToSet(eff[s].writes))
            => ("tags" \in SeqToSet(eff[s].invoked) /\ "tags" \notin eff[s].failed)

\* ------------------------------------------ properties of the retirement

\* A bucket dated more than 30 days before the day of the last tag operation
\* is in the ledger.
StaleLeft == \E k \in DOMAIN tag_trends : lastTagOp.day - k[1] > RetentionDays

\* C35 as stated: after every update_tag_trends call, whatever its tag
\* list, no bucket older than 30 days remains.
C35_EveryCallRetires ==
    (lastTagOp.op = "update_tag_trends" /\ lastTagOp.ok) => ~StaleLeft

\* C35: after an update_tag_trends call that commits with at least one
\* non-empty tag, no bucket older than 30 days remains; a call whose list is
\* empty or holds empty strings only leaves tags and buckets as they were.
C35_RecordingCallRetires ==
    (lastTagOp.op = "update_tag_trends" /\ lastTagOp.ok) =>
        IF NamesOf(lastTagOp.tags_list) # {}
        THEN ~StaleLeft
        ELSE tag_trends = lastTagOp.tag_trends /\ tags = lastTagOp.tags

\* A call with a tag to record found a bucket older than 30 days and left none.
C35_Witness_StaleRemoved ==
    /\ lastTagOp.op = "update_tag_trends" /\ lastTagOp.ok
    /\ NamesOf(lastTagOp.tags_list) # {}
    /\ \E k \in DOMAIN lastTagOp.tag_trends : lastTagOp.day - k[1] > RetentionDays
    /\ ~StaleLeft

\* ------------------------------------- properties of the admission check

\* The flags ask for a heavy capability: tags, face or vector.
Heavy(flags) == Bits(flags) \cap {FLAG_TAGS, FLAG_FACE, FLAG_VECTOR} # {}

\* C36: can_run_flags returns False exactly when the free-VRAM headroom is
\* known, is below 15 percent and the flags contain the tags, face or vector
\* bit; in every other case it returns True; and the call leaves the loaded
\* slots and their timestamps as they were.
C36_RefusesOnlyHeavyUnderLowVram ==
    mgr.op = "can_run" =>
        /\ mgr.value =
             Some(~(/\ mgr.free_pct # None
                    /\ \A f \in mgr.free_pct : f < 15
                    /\ Heavy(mgr.flags)))
        /\ models = mgr.before
        /\ model_last_used = mgr.before_used

\* A heavy request is refused under low headroom while slots are loaded.
C36_Witness_HeavyRefused ==
    /\ mgr.op = "can_run"
    /\ mgr.value = Some(FALSE)
    /\ mgr.free_pct = Some(14)
    /\ mgr.flags = FLAG_FACE + FLAG_BASIC
    /\ models # {}

\* ------------------------------------- properties of the slot tables

\* C37: in every state of the manager, the slots holding a last-use timestamp
\* are exactly the loaded slots.
C37_TimestampsMatchSlots == model_last_used = models

\* A load under low headroom evicted a loaded slot and loaded another one,
\* while a third slot stayed loaded.
C37_Witness_EvictedAndLoaded ==
    /\ mgr.op = "load"
    /\ Len(mgr.evicted) > 0
    /\ SeqToSet(mgr.evicted) \subseteq mgr.before
    /\ models \ mgr.before # {}
    /\ models \cap mgr.before # {}
    /\ model_last_used = models

\* ------------------------------------- properties of the tags capability

\* The names the tags engine computes for content h, general and character.
ComputedNames(h) == NamesOf(ContentTags(h).tags) \cup NamesOf(ContentTags(h).characters)

\* The names get_tags_for_hash returns for content h.
RetrievableNames(h) ==
    LET t == get_tags_for_hash(tags, file_tags, h)
    IN SeqToSet(t.tags) \cup SeqToSet(t.characters)

\* C38: in every state, between the steps of a scan and after a failed step
\* too, a fingerprint whose stored flags_done holds the tags bit has the tags
\* computed for it retrievable from the store.
C38_TagsBitImpliesTagsStored ==
    \A h \in Hashes :
        FLAG_TAGS \in Bits(StoredFlags(files, h)) => ComputedNames(h) \subseteq RetrievableNames(h)

\* The same for the general tags alone.
GeneralTagsStored ==
    \A h \in Hashes :
        FLAG_TAGS \in Bits(StoredFlags(files, h)) =>
            NamesOf(ContentTags(h).tags) \subseteq RetrievableNames(h)

\* The same for the general tags alone, in the states where no call is running.
GeneralTagsStoredAtRest == loop = 0 => GeneralTagsStored

====
